---- MODULE Spec2Model ----
(***************************************************************************)
(* Model of the pomelo-udp-webrtc client: the Session state machine        *)
(* (src/src/session.ts), its Channels, and Socket.connect                  *)
(* (src/src/socket.ts).                                                    *)
(*                                                                         *)
(* One action is one task of the JavaScript event loop: a transport event  *)
(* handler, a timer callback, the resumption of a suspended async handler, *)
(* or a call of the public API.  A handler runs to completion, with every  *)
(* synchronous re-entrant call it makes (close() -> channel.close() ->     *)
(* onClosed.emit() -> close()).  The continuation of Socket.connect after  *)
(* `await session.onConnectResult.once()` is a microtask: it runs right    *)
(* after the task that resolved the promise and is part of that action.    *)
(*                                                                         *)
(* The utility classes are modelled on their own, each with a variable and *)
(* a specification: Signal (SignalSpec), Pool (PoolSpec), SampleSet        *)
(* (SampleSpec) and RTTCalculator (RttSpec).  An action there is one call  *)
(* of a public method, run to completion.                                  *)
(***************************************************************************)
EXTENDS Integers, Sequences, FiniteSets, TLC

\* ---------------------------------------------------------------- bounds
MaxEndpoints   == 3   \* server addresses in the connect token
NumChannels    == 1   \* configured channel modes (N); the system channel is extra
MaxFrames      == 2   \* signaling frames delivered by the peer, over all sessions
MaxMessages    == 1   \* data messages delivered per session
MaxEvents      == 6   \* events from outside the client, one-endpoint runs
MaxSockEvents  == 4   \* events from outside the client, multi-endpoint runs
MaxClientEvents == 4  \* events from outside the client, runs with sends
MaxSends       == 2   \* Session.send calls per session
MaxInvalid     == 1   \* connect calls with a token of the wrong length
MaxConns       == 2   \* connections ever made to the Signal under study
MaxEmits       == 2   \* emits of the Signal under study
PoolCap        == 2   \* maxElements of the Pool under study
MaxItems       == 2   \* distinct objects released to the Pool
MaxPoolOps     == 5   \* acquire and release calls on the Pool
SampleSize     == 3   \* size of the SampleSet under study
MaxSample      == 2   \* submitted values range over -MaxSample..MaxSample
MaxSubmits     == 5   \* submit calls on the SampleSet
MaxPings       == 18  \* next() calls on the RTTCalculator
MaxPongs       == 1   \* pongs that find their entry
MaxRtt         == 2   \* a pong arrives 1..MaxRtt after its ping was sent
MaxSyncs       == 5   \* sync calls on the Clock under study
MaxBufLen      == 3   \* length of the byte arrays handed to Payload.prepare
MaxPayloadOps  == 4   \* calls on the Payload under study
MaxSysEvents   == 4   \* events from outside the client, runs with pings
MaxSysPings    == 21  \* ticks of the ping timer: one more than the entries
MaxHandshakePings == 2 \* ticks of the ping timer, runs from the handshake
MaxSysMessages == 2   \* messages delivered on the system channel

\* ------------------------------------------------------------- constants
SUCCESS   == 0
DENIED    == -1
TIMED_OUT == -2
NoResult  == 1        \* "no value yet" of a promise / of Socket.connect

OPCODE_AUTH        == "AUTH"
OPCODE_DESCRIPTION == "DESC"
OPCODE_CANDIDATE   == "CAND"
OPCODE_READY     == "READY"
OPCODE_CONNECTED == "CONN"
AUTH_RESULT_OK   == "OK"

\* constants.ts is not among the sources; the connect token is 2048 bytes
POMELO_CONNECT_TOKEN_BYTES == 2048

VARIABLES
    sess,          \* sequence of the SessionImpl objects constructed so far
    sockPc,        \* Socket.connect: "idle", "awaiting", "returned", "threw"
    sockResult,    \* value Socket.connect resolved with (NoResult before)
    sockSession,   \* Socket.session: 0 = null, else index into sess
    token,         \* the connect token handed to Socket.connect
    addresses,     \* info.serverAddresses.length of the decoded token
    timeout,       \* info.timeout of the decoded token
    onConnected,   \* listener.onConnected calls: sequence of session indices
    nFrames,       \* signaling frames delivered so far
    budget,        \* events from outside the client still to come
    socketStatistic, \* Socket.socketStatistic, shared by every channel
    nInvalid,      \* connect calls that threw the invalid-token error
    trackOrder,    \* whether the order of the frames' effects is recorded
    signal,        \* a Signal (utils/signal.ts) studied on its own
    pool,          \* a Pool studied on its own
    rtt,           \* an RTTCalculator studied on its own
    sampleSet,     \* a SampleSet studied on its own
    clock,         \* a Clock studied on its own
    payload        \* a Payload studied on its own

sessVars == <<sess, sockPc, sockResult, sockSession, token, addresses,
              timeout, onConnected, nFrames, budget, socketStatistic,
              nInvalid, trackOrder>>
utilVars == <<signal, pool, rtt, sampleSet, clock, payload>>
vars == <<sessVars, utilVars>>

Chans == 1..NumChannels
Endpoints == 1..MaxEndpoints
Sessions == 1..Len(sess)

\* ------------------------------------------------------- signaling frames
\* A frame is the list of its '|'-separated fields.  Numeric fields are
\* kept as sequences of characters so that BigInt() parsing is computed.
Frames == <<
    <<OPCODE_AUTH, AUTH_RESULT_OK, <<"7">>, <<"5">> >>,
    <<OPCODE_AUTH, AUTH_RESULT_OK, <<"8">>, <<"5">> >>,
    <<OPCODE_AUTH, AUTH_RESULT_OK, <<"9">>, <<"x">> >>,
    <<OPCODE_AUTH, "NO">>,
    <<OPCODE_DESCRIPTION, "offer", "sdp">>,
    <<OPCODE_READY>>,
    <<OPCODE_CONNECTED>>
  >>

Digit(c) ==
    CASE c = "0" -> 0 [] c = "1" -> 1 [] c = "2" -> 2 [] c = "3" -> 3
      [] c = "4" -> 4 [] c = "5" -> 5 [] c = "6" -> 6 [] c = "7" -> 7
      [] c = "8" -> 8 [] c = "9" -> 9 [] OTHER -> -1

RECURSIVE DigitsValue(_, _)
DigitsValue(str, acc) ==
    IF str = <<>> THEN acc
    ELSE IF Digit(Head(str)) < 0 THEN -1
    ELSE DigitsValue(Tail(str), acc * 10 + Digit(Head(str)))

\* BigInt(string): the empty string is 0n, an optional sign followed by
\* decimal digits is that integer, anything else throws.
BigInt(str) ==
    IF str = <<>> THEN [ok |-> TRUE, val |-> 0]
    ELSE IF Head(str) = "-" /\ Len(str) > 1 /\ DigitsValue(Tail(str), 0) >= 0
         THEN [ok |-> TRUE, val |-> 0 - DigitsValue(Tail(str), 0)]
    ELSE IF Head(str) # "-" /\ DigitsValue(str, 0) >= 0
         THEN [ok |-> TRUE, val |-> DigitsValue(str, 0)]
    ELSE [ok |-> FALSE, val |-> 0]

\* ------------------------------------------------------------ transports
\* RTCDataChannel.close() / WebSocket.close(): an open or connecting
\* transport starts closing; its close event is delivered later.
TransportClose(st) ==
    IF st \in {"connecting", "open"} THEN "closing" ELSE st

\* SessionImpl.sendWS(opcode, ...): ws.send() of one frame; sent counts the
\* frames per opcode, lateSend records a send made by a closed session.
SentOpcodes ==
    {OPCODE_AUTH, OPCODE_DESCRIPTION, OPCODE_CANDIDATE, OPCODE_READY}

sendWS(s, opcode) ==
    [s EXCEPT !.sent[opcode] = @ + 1, !.lateSend = @ \/ ~s.active]

\* ---------------------------------------------------------------- Signal
\* session.onConnectResult.emit(r): the only connection is the one-shot
\* Socket.connect registers with once(); it resolves the promise with the
\* first emitted value and unlinks itself.
EmitConnectResult(s, r) ==
    [s EXCEPT !.nResults   = @ + 1,
              !.nDenied    = IF r = DENIED THEN @ + 1 ELSE @,
              !.nTimedOut  = IF r = TIMED_OUT THEN @ + 1 ELSE @,
              !.nSuccess   = IF r = SUCCESS THEN @ + 1 ELSE @,
              !.lateResult = @ \/ ~s.active,
              !.lateSuccess = @ \/ (r = SUCCESS /\ ~s.active),
              !.resolved   = IF s.onceLinked THEN r ELSE @,
              !.onceLinked = FALSE]

\* session.onClosed.emit(): the connection is Socket's persistent handler,
\* which calls listener.onDisconnected(session).
EmitClosed(s) == [s EXCEPT !.onClosedEmits = @ + 1]

\* --------------------------------------------------------------- session
\* Socket.socketStatistic as constructed
NewStatistic == [webrtc |-> [totalRecvBytes |-> 0, totalSentBytes |-> 0]]

\* the byte lengths of the messages sent and received
ByteLengths == {1, 3}

\* what the last Session.send call of a session did, before any call
NoSend ==
    [channelIndex |-> -1, byteLength |-> 0, ret |-> FALSE, handed |-> <<>>,
     wasActive |-> FALSE]

\* new SessionImpl(modes, token, address, statistic, timeout), followed by
\* the three registrations Socket.connect makes before it yields.
\* chClosedEmits and sysClosedEmits count the onClosed emissions of the
\* channels, chOpened the client channels whose onopen fired, sysDuplicate
\* a "system" announcement that found the system channel adopted,
\* nPingArmed the setInterval calls, nSends and lastSend the send calls.
NewSession(to) ==
    [ active              |-> TRUE,
      connected           |-> FALSE,
      allChannelsOpened   |-> FALSE,
      readySignalReceived |-> FALSE,
      id                  |-> -1,
      clockSeeded         |-> FALSE,
      connectTimeout      |-> IF to > 0 THEN "armed" ELSE "null",
      pingInterval        |-> FALSE,
      openedChannels      |-> 0,
      chActive            |-> [c \in Chans |-> TRUE],
      dc                  |-> [c \in Chans |-> "connecting"],
      inc                 |-> [c \in Chans |-> "none"],
      sysActive           |-> FALSE,
      sysDc               |-> "none",
      chClosedEmits       |-> [c \in Chans |-> 0],
      sysClosedEmits      |-> 0,
      chOpened            |-> [c \in Chans |-> FALSE],
      sysDuplicate        |-> FALSE,
      nPingArmed          |-> 0,
      nSends              |-> 0,
      lastSend            |-> NoSend,
      nSuccess            |-> 0,
      lateSuccess         |-> FALSE,
      pc                  |-> "live",
      ws                  |-> "connecting",
      inflight            |-> <<>>,
      descAwait1          |-> 0,
      descAwait2          |-> 0,
      inflightNo          |-> <<>>,
      descNo1             |-> <<>>,
      descNo2             |-> <<>>,
      lastEffect          |-> 0,
      disorder            |-> FALSE,
      remoteSet           |-> FALSE,
      localSet            |-> FALSE,
      sent                |-> [o \in SentOpcodes |-> 0],
      lateSend            |-> FALSE,
      onceLinked          |-> TRUE,
      resolved            |-> NoResult,
      nResults            |-> 0,
      nDenied             |-> 0,
      nTimedOut           |-> 0,
      lateResult          |-> FALSE,
      onClosedEmits       |-> 0,
      nMessages           |-> 0,
      lateMessage         |-> FALSE,
      nSysIn              |-> 0,
      sysIn               |-> <<>>,
      sysThrew            |-> FALSE,
      nSysOut             |-> 0,
      sysOut              |-> <<>>,
      lateSys             |-> FALSE,
      discTrue            |-> 0,
      discWrong           |-> FALSE,
      discAgain           |-> FALSE,
      cancelled           |-> FALSE ]

RECURSIVE SessionImpl_close(_)
RECURSIVE ChannelImpl_close(_, _)
RECURSIVE CloseChannels(_, _)

\* ChannelImpl.close() that leaves the active flag set
ChannelImpl_close_StaysActive(s, c) ==
    IF ~s.chActive[c] THEN s
    ELSE LET s1 == [s EXCEPT !.dc[c]  = TransportClose(@),
                             !.inc[c] = TransportClose(@),
                             !.chClosedEmits[c] = @ + 1]
         IN  SessionImpl_close(s1).st

\* ChannelImpl.close() of client channel c; its onClosed handler is
\* () => session.close().
ChannelImpl_close(s, c) ==
    IF ~s.chActive[c] THEN s
    ELSE LET s1 == [s EXCEPT !.chActive[c] = FALSE,
                             !.dc[c]  = TransportClose(@),
                             !.inc[c] = TransportClose(@),
                             !.chClosedEmits[c] = @ + 1]
         IN  SessionImpl_close(s1).st

\* this.channels.forEach(channel => channel?.close())
CloseChannels(s, c) ==
    IF c > NumChannels THEN s
    ELSE CloseChannels(ChannelImpl_close(s, c), c + 1)

\* RTCPeerConnection.close(): every data channel of the connection closes.
PcClose(s) ==
    [s EXCEPT !.pc    = "closed",
              !.dc    = [c \in Chans |-> TransportClose(s.dc[c])],
              !.inc   = [c \in Chans |-> TransportClose(s.inc[c])],
              !.sysDc = TransportClose(@)]

\* close() that clears the active flag only after the transports are closed
SessionImpl_close_LateFlag(s) ==
    IF ~s.active THEN [st |-> s, ret |-> FALSE]
    ELSE LET s2 == CloseChannels(s, 1)
             s3 == PcClose(s2)
             s4 == [s3 EXCEPT !.ws = TransportClose(@)]
             s5 == [s4 EXCEPT !.pingInterval = FALSE, !.active = FALSE]
             s6 == EmitClosed(s5)
         IN  [st |-> s6, ret |-> TRUE]

\* close() that leaves the ping timer running
SessionImpl_close_KeepsPinging(s) ==
    IF ~s.active THEN [st |-> s, ret |-> FALSE]
    ELSE LET s1 == [s EXCEPT !.active = FALSE]
             s2 == CloseChannels(s1, 1)
             s3 == PcClose(s2)
             s4 == [s3 EXCEPT !.ws = TransportClose(@)]
             s6 == EmitClosed(s4)
         IN  [st |-> s6, ret |-> TRUE]

\* SessionImpl.close(): returns the new state and the boolean result.
SessionImpl_close(s) ==
    IF ~s.active THEN [st |-> s, ret |-> FALSE]
    ELSE LET s1 == [s EXCEPT !.active = FALSE]
             s2 == CloseChannels(s1, 1)
             s3 == PcClose(s2)
             s4 == [s3 EXCEPT !.ws = TransportClose(@)]
             s5 == [s4 EXCEPT !.pingInterval = FALSE]
             s6 == EmitClosed(s5)
         IN  [st |-> s6, ret |-> TRUE]

\* SessionImpl.disconnect()
disconnect(s) == SessionImpl_close(s)

\* A disconnect() call made by the application, with the record of what
\* it returned: cancelled (it closed the session), discTrue (calls that
\* returned true), discWrong (a call returned something else than "the
\* session was active"), discAgain (a call followed one that returned true).
CallDisconnect(s) ==
    LET r == disconnect(s)
    IN  [r.st EXCEPT !.cancelled = @ \/ r.ret,
                     !.discTrue  = IF r.ret THEN @ + 1 ELSE @,
                     !.discWrong = @ \/ (r.ret # s.active),
                     !.discAgain = @ \/ s.discTrue > 0]

\* systemChannel.close(); its onClosed handler is () => session.close().
SystemChannel_close(s) ==
    IF ~s.sysActive THEN s
    ELSE SessionImpl_close(
            [s EXCEPT !.sysActive = FALSE, !.sysDc = TransportClose(@),
                      !.sysClosedEmits = @ + 1]).st

\* processReady that leaves the connect timeout armed
processReady_KeepsTimer(s) == s

\* SessionImpl.processReady()
processReady(s) ==
    IF s.connectTimeout # "null" THEN [s EXCEPT !.connectTimeout = "null"]
    ELSE s

\* SessionImpl.handleAllChannelsOpened()
handleAllChannelsOpened(s) ==
    LET s0 == sendWS(s, OPCODE_READY)
        s1 == [s0 EXCEPT !.pingInterval = TRUE,
                         !.nPingArmed = @ + 1,
                         !.allChannelsOpened = TRUE]
    IN  IF s1.allChannelsOpened /\ s1.readySignalReceived
        THEN processReady(s1) ELSE s1

\* if (++openedChannels === totalChannels) this.handleAllChannelsOpened()
CountOpened(s) ==
    LET s1 == [s EXCEPT !.openedChannels = @ + 1]
    IN  IF s1.openedChannels = NumChannels + 1
        THEN handleAllChannelsOpened(s1) ELSE s1

\* ondatachannel that counts every "system" announcement
AdoptSystemChannel_CountsDuplicate(s) ==
    IF s.sysDc # "none" THEN CountOpened([s EXCEPT !.sysDuplicate = TRUE])
    ELSE CountOpened([s EXCEPT !.sysDc = "open", !.sysActive = TRUE])

\* pc.ondatachannel for the label "system"
AdoptSystemChannel(s) ==
    IF s.sysDc # "none" THEN [s EXCEPT !.sysDuplicate = TRUE]
    ELSE CountOpened([s EXCEPT !.sysDc = "open", !.sysActive = TRUE])

\* ChannelImpl.send that does not look at the active flag
ChannelImpl_send_Inactive(active, statistic, byteLength) ==
    [ret |-> TRUE, handed |-> <<byteLength>>,
     statistic |-> [statistic EXCEPT
                       !.webrtc.totalSentBytes = @ + byteLength]]

\* ChannelImpl.send(message) on a channel whose active flag is `active`,
\* for a message of byteLength bytes: the result, the byte lengths handed
\* to outgoingDataChannel.send, and the statistic afterwards
ChannelImpl_send(active, statistic, byteLength) ==
    IF ~active
    THEN [ret |-> FALSE, handed |-> <<>>, statistic |-> statistic]
    ELSE [ret |-> TRUE, handed |-> <<byteLength>>,
          statistic |-> [statistic EXCEPT
                            !.webrtc.totalSentBytes = @ + byteLength]]

\* SessionImpl.send(channelIndex, message); this.channels[k] is channel
\* k + 1 of the model
SessionImpl_send(s, statistic, channelIndex, byteLength) ==
    IF channelIndex + 1 \notin Chans
    THEN [ret |-> FALSE, handed |-> <<>>, statistic |-> statistic]
    ELSE ChannelImpl_send(s.chActive[channelIndex + 1], statistic, byteLength)

\* ChannelImpl.setIncomingDataChannel(dc) of client channel c
setIncomingDataChannel(s, c) == [s EXCEPT !.inc[c] = "open"]

\* SessionImpl.handleAuthMessage(fields)
handleAuthMessage(s, fields) ==
    IF Len(fields) < 2 THEN s
    ELSE IF fields[2] # AUTH_RESULT_OK THEN EmitConnectResult(s, DENIED)
    ELSE IF Len(fields) # 4 THEN s
    ELSE IF ~BigInt(fields[3]).ok THEN s
    ELSE LET s1 == [s EXCEPT !.id = BigInt(fields[3]).val]
         IN  IF ~BigInt(fields[4]).ok THEN s1
             ELSE [s1 EXCEPT !.clockSeeded = TRUE]

\* SessionImpl.handleRemoteDescription(type, sdp) up to its first await
handleRemoteDescription(s) == [s EXCEPT !.descAwait1 = @ + 1]

\* SessionImpl.handleWSMessage(event), after `await data.text()`
handleWSMessage(s, fields) ==
    CASE fields[1] = OPCODE_AUTH -> handleAuthMessage(s, fields)
      [] fields[1] = OPCODE_DESCRIPTION ->
            IF Len(fields) = 3 THEN handleRemoteDescription(s) ELSE s
      [] fields[1] = OPCODE_CANDIDATE -> s
      [] fields[1] = OPCODE_READY ->
            IF s.readySignalReceived THEN s
            ELSE LET s1 == [s EXCEPT !.readySignalReceived = TRUE]
                 IN  IF s1.allChannelsOpened /\ s1.readySignalReceived
                     THEN processReady(s1) ELSE s1
      [] fields[1] = OPCODE_CONNECTED ->
            IF s.connected THEN s
            ELSE EmitConnectResult([s EXCEPT !.connected = TRUE], SUCCESS)
      [] OTHER -> s

\* The connect-timeout callback: close(), then emit TIMED_OUT.
ConnectTimeoutCallback(s) ==
    EmitConnectResult(SessionImpl_close(s).st, TIMED_OUT)

\* channel.onData handler of a client channel: onMessage.emit(message)
EmitMessage(s) ==
    [s EXCEPT !.nMessages = @ + 1, !.lateMessage = @ \/ ~s.active]

\* ---------------------------------------------------------------- Socket
\* connect that keeps iterating after a SUCCESS instead of returning
SocketResume_NoReturn(ss) ==
    LET i == Len(ss)
        r == ss[i].resolved
    IN  /\ sockSession' = IF r = SUCCESS THEN i ELSE sockSession
        /\ onConnected' = IF r = SUCCESS THEN Append(onConnected, i)
                          ELSE onConnected
        /\ IF i < addresses
           THEN /\ sess' = Append(ss, NewSession(timeout))
                /\ UNCHANGED <<sockPc, sockResult>>
           ELSE /\ sess' = ss
                /\ sockPc' = "returned"
                /\ sockResult' = r

\* connect that returns the first endpoint's result when all have failed
SocketResume_FirstResult(ss) ==
    LET i == Len(ss)
        r == ss[i].resolved
    IN  IF r = SUCCESS
        THEN /\ sess' = ss
             /\ sockSession' = i
             /\ onConnected' = Append(onConnected, i)
             /\ sockPc' = "returned"
             /\ sockResult' = SUCCESS
        ELSE IF i < addresses
        THEN /\ sess' = Append(ss, NewSession(timeout))
             /\ UNCHANGED <<sockSession, onConnected, sockPc, sockResult>>
        ELSE /\ sess' = ss
             /\ sockPc' = "returned"
             /\ sockResult' = ss[1].resolved
             /\ UNCHANGED <<sockSession, onConnected>>

\* Socket.connect resumed with the value of onConnectResult.once(): the
\* loop body after the await, and the next iteration up to its await.
SocketResume(ss) ==
    LET i == Len(ss)
        r == ss[i].resolved
    IN  IF r = SUCCESS
        THEN /\ sess' = ss
             /\ sockSession' = i
             /\ onConnected' = Append(onConnected, i)
             /\ sockPc' = "returned"
             /\ sockResult' = SUCCESS
        ELSE IF i < addresses
        THEN /\ sess' = Append(ss, NewSession(timeout))
             /\ UNCHANGED <<sockSession, onConnected, sockPc, sockResult>>
        ELSE /\ sess' = ss
             /\ sockPc' = "returned"
             /\ sockResult' = r
             /\ UNCHANGED <<sockSession, onConnected>>

\* End of a task that left session i in state s: run the pending microtask
\* of Socket.connect if the task resolved the promise it awaits.  cost is 1
\* for a task started by an event a transport or the application delivers
\* and 0 for a timer callback or the resumption of a suspended handler.
FinishWith(i, s, cost, statistic) ==
    LET ss == [sess EXCEPT ![i] = s]
    IN  /\ IF sockPc = "awaiting" /\ i = Len(ss) /\ s.resolved # NoResult
           THEN SocketResume(ss)
           ELSE /\ sess' = ss
                /\ UNCHANGED <<sockSession, onConnected, sockPc, sockResult>>
        /\ budget >= cost
        /\ budget' = budget - cost
        /\ socketStatistic' = statistic
        /\ UNCHANGED <<token, addresses, timeout, nInvalid>>
        /\ UNCHANGED <<utilVars, trackOrder>>

\* End of a task that left the statistic as it was.
Finish(i, s, cost) == FinishWith(i, s, cost, socketStatistic)

\* ------------------------------------------------- Signal (utils/signal.ts)
\* A connection is named by its position in signal.conn, which is also the
\* order of construction; 0 stands for null.
Conns == 1..MaxConns

\* What a handler does when it is called.  Besides returning at once, a
\* handler may use the Signal it is connected to: disconnect the connection
\* whose handle it holds (its own or another one), or register a new
\* persistent or one-shot handler.  "resolve" is the resolve function of the
\* promise made by once().
Passive  == [op |-> "none", arg |-> 0]
Resolve  == [op |-> "resolve", arg |-> 0]
Callbacks ==
    {Passive, [op |-> "connect", arg |-> 0], [op |-> "once", arg |-> 0]}
        \cup {[op |-> "disconnect", arg |-> k] : k \in Conns}

\* A handler that, the first time it is called, emits the Signal it is
\* connected to (a nested emit) and returns at once on later calls.
Emitter == [op |-> "emit", arg |-> 0]

\* new Signal(); emits, start, log, dropped and added describe the last
\* emit: the list when it started, the connections whose callback it
\* called, in call order, the connections handlers unlinked during it and
\* the connections handlers linked during it.
NewSignal ==
    [ head |-> 0, tail |-> 0, conn |-> <<>>,
      emits |-> 0, start |-> <<>>, log |-> <<>>,
      dropped |-> {}, added |-> {} ]

\* new SignalConnectionImpl(callback, once)
SignalConnectionImpl(callback, once) ==
    [ next |-> 0, prev |-> 0, list |-> FALSE,
      callback |-> callback, once |-> once, calls |-> 0 ]

\* SignalConnectionList.link(connection)
link(sg, c) ==
    IF sg.head = 0
    THEN [sg EXCEPT !.head = c, !.tail = c, !.conn[c].list = TRUE]
    ELSE [sg EXCEPT !.conn[c].prev = sg.tail,
                    !.conn[sg.tail].next = c,
                    !.tail = c,
                    !.conn[c].list = TRUE]

\* SignalConnectionList.unlink(connection)
unlink(sg, c) ==
    IF ~sg.conn[c].list THEN sg
    ELSE LET n == sg.conn[c].next
             p == sg.conn[c].prev
             s1 == IF c = sg.head
                   THEN IF n # 0
                        THEN [sg EXCEPT !.head = n, !.conn[n].prev = 0]
                        ELSE [sg EXCEPT !.head = 0, !.tail = 0]
                   ELSE IF c = sg.tail
                   THEN [sg EXCEPT !.tail = p, !.conn[p].next = 0]
                   ELSE [sg EXCEPT !.conn[p].next = n, !.conn[n].prev = p]
         IN  [s1 EXCEPT !.conn[c].list = FALSE,
                        !.conn[c].next = 0,
                        !.conn[c].prev = 0]

\* SignalConnectionImpl.disconnect()
SignalConnection_disconnect(sg, c) ==
    IF sg.conn[c].list THEN unlink(sg, c) ELSE sg

\* Signal.connect(callback) / Signal.once(cb): construct, then link
Signal_link(sg, callback, once) ==
    link([sg EXCEPT !.conn = Append(@, SignalConnectionImpl(callback, once))],
         Len(sg.conn) + 1)

Signal_connect(sg, callback) == Signal_link(sg, callback, FALSE)

Signal_once(sg, cb) == Signal_link(sg, cb, TRUE)

\* this.callback.apply(null, args); a nested Signal.emit runs the loop of
\* emit from the head while the outer loop is suspended in this call
RECURSIVE EmitLoop(_, _)
CallbackApply(sg, c) ==
    LET cb == sg.conn[c].callback
        s0 == [sg EXCEPT !.log = Append(@, c), !.conn[c].calls = @ + 1]
        new == Len(s0.conn) + 1
    IN  CASE cb.op = "disconnect" /\ cb.arg <= Len(s0.conn) ->
                [SignalConnection_disconnect(s0, cb.arg) EXCEPT
                    !.dropped = IF s0.conn[cb.arg].list
                                THEN @ \cup {cb.arg} ELSE @]
          [] cb.op = "connect" /\ new <= MaxConns ->
                [Signal_connect(s0, Passive) EXCEPT !.added = @ \cup {new}]
          [] cb.op = "once" /\ new <= MaxConns ->
                [Signal_once(s0, Passive) EXCEPT !.added = @ \cup {new}]
          [] cb.op = "emit" /\ sg.conn[c].calls = 0 ->
                EmitLoop(s0, s0.head)
          [] OTHER -> s0

\* SignalConnectionImpl.emit(...args)
SignalConnectionImpl_emit(sg, c) ==
    LET s1 == CallbackApply(sg, c)
    IN  IF s1.conn[c].once THEN SignalConnection_disconnect(s1, c) ELSE s1

\* the loop of Signal.emit: the next pointer is read after the call
EmitLoop(sg, connection) ==
    IF connection = 0 THEN sg
    ELSE LET s1 == SignalConnectionImpl_emit(sg, connection)
         IN  EmitLoop(s1, s1.conn[connection].next)

\* the linked connections from c on, in list order
RECURSIVE ListFrom(_, _)
ListFrom(sg, c) ==
    IF c = 0 THEN <<>> ELSE <<c>> \o ListFrom(sg, sg.conn[c].next)

\* Signal.emit(...args)
Signal_emit(sg) ==
    EmitLoop([sg EXCEPT !.emits = @ + 1,
                        !.start = ListFrom(sg, sg.head),
                        !.log = <<>>,
                        !.dropped = {},
                        !.added = {}],
             sg.head)

\* ----------------------------------------------------- Pool (utils/pool.ts)
\* An object handed to release() is named by a number in Items; Fresh
\* stands for the object create() makes and Hole for an array slot that was
\* never written.
Items == 1..MaxItems
Fresh == 0
Hole  == -1

\* new Pool(maxElements): elements = new Array(maxElements), index = -1.
\* ops counts the calls; op, ret, created and destroyed describe the last
\* call: which one it was, what acquire returned, whether it called
\* create() and whether release called destroy().
NewPool ==
    [ elements |-> [k \in 1..PoolCap |-> Hole], index |-> -1,
      ops |-> 0, op |-> "none", ret |-> Hole,
      created |-> FALSE, destroyed |-> FALSE ]

\* Pool.acquire(); slot k of the JavaScript array is elements[k + 1]
Pool_acquire(pl) ==
    IF pl.index < 0
    THEN [pl EXCEPT !.ops = @ + 1, !.op = "acquire", !.ret = Fresh,
                    !.created = TRUE, !.destroyed = FALSE]
    ELSE [pl EXCEPT !.ops = @ + 1, !.op = "acquire",
                    !.ret = pl.elements[pl.index + 1],
                    !.index = @ - 1,
                    !.created = FALSE, !.destroyed = FALSE]

\* Pool.release(element); writing one past the end of a JavaScript array
\* extends it
Pool_release(pl, element) ==
    IF pl.index = Len(pl.elements)
    THEN [pl EXCEPT !.ops = @ + 1, !.op = "release", !.ret = Hole,
                    !.created = FALSE, !.destroyed = TRUE]
    ELSE [pl EXCEPT !.ops = @ + 1, !.op = "release", !.ret = Hole,
                    !.created = FALSE, !.destroyed = FALSE,
                    !.index = @ + 1,
                    !.elements =
                        IF pl.index + 2 <= Len(@)
                        THEN [@ EXCEPT ![pl.index + 2] = element]
                        ELSE Append(@, element)]

\* ------------------------------------------- SampleSet (utils/sampling.ts)
\* the bigint values handed to submit()
Samples == (0 - MaxSample)..MaxSample

\* bigint division: the quotient is truncated toward zero
BigIntDiv(a, b) ==
    IF (a >= 0) = (b > 0) THEN (IF a >= 0 THEN a ELSE 0 - a) \div
                                (IF b > 0 THEN b ELSE 0 - b)
    ELSE 0 - ((IF a >= 0 THEN a ELSE 0 - a) \div
              (IF b > 0 THEN b ELSE 0 - b))

\* new SampleSet(size).  submitted lists the values handed to submit so
\* far; result is what the last calc() returned, valid until the next
\* submit.
SampleSet(size) ==
    [ initialized |-> FALSE, index |-> 0,
      values |-> [k \in 1..size |-> 0],
      sum |-> 0, sumSquared |-> 0, size |-> size,
      submitted |-> <<>>,
      result |-> [valid |-> FALSE, mean |-> 0, variance |-> 0] ]

NewSampleSet == SampleSet(SampleSize)

\* SampleSet.submit first call, with sumSquared = value * value
SampleSet_submit_OneSquare(ss, value) ==
    LET s0 == [ss EXCEPT !.submitted = Append(@, value),
                         !.result.valid = FALSE]
    IN  IF ~ss.initialized
        THEN [s0 EXCEPT !.values = [k \in DOMAIN @ |-> value],
                        !.sum = value * ss.size,
                        !.sumSquared = value * value,
                        !.initialized = TRUE]
        ELSE LET prevVal == ss.values[ss.index + 1]
             IN  [s0 EXCEPT
                    !.sum = ss.sum + value - prevVal,
                    !.sumSquared =
                        ss.sumSquared + value * value - prevVal * prevVal,
                    !.values[ss.index + 1] = value,
                    !.index = (ss.index + 1) % Len(ss.values)]

\* SampleSet.submit that does not advance the index
SampleSet_submit_SameSlot(ss, value) ==
    LET s0 == [ss EXCEPT !.submitted = Append(@, value),
                         !.result.valid = FALSE]
    IN  IF ~ss.initialized
        THEN [s0 EXCEPT !.values = [k \in DOMAIN @ |-> value],
                        !.sum = value * ss.size,
                        !.sumSquared = (value * ss.size) * value,
                        !.initialized = TRUE]
        ELSE LET prevVal == ss.values[ss.index + 1]
             IN  [s0 EXCEPT
                    !.sum = ss.sum + value - prevVal,
                    !.sumSquared =
                        ss.sumSquared + value * value - prevVal * prevVal,
                    !.values[ss.index + 1] = value]

\* SampleSet.submit(value); slot k of the array is values[k + 1]
SampleSet_submit(ss, value) ==
    LET s0 == [ss EXCEPT !.submitted = Append(@, value),
                         !.result.valid = FALSE]
    IN  IF ~ss.initialized
        THEN [s0 EXCEPT !.values = [k \in DOMAIN @ |-> value],
                        !.sum = value * ss.size,
                        !.sumSquared = (value * ss.size) * value,
                        !.initialized = TRUE]
        ELSE LET prevVal == ss.values[ss.index + 1]
             IN  [s0 EXCEPT
                    !.sum = ss.sum + value - prevVal,
                    !.sumSquared =
                        ss.sumSquared + value * value - prevVal * prevVal,
                    !.values[ss.index + 1] = value,
                    !.index = (ss.index + 1) % Len(ss.values)]

\* SampleSet.calc() that divides the difference of the sums
SampleSet_calc_DividesLast(ss) ==
    LET mean == BigIntDiv(ss.sum, ss.size)
        variance == BigIntDiv(ss.sumSquared - ss.sum * ss.sum, ss.size)
    IN  [mean |-> mean, variance |-> variance]

\* SampleSet.calc()
SampleSet_calc(ss) ==
    LET mean == BigIntDiv(ss.sum, ss.size)
        variance == BigIntDiv(ss.sumSquared, ss.size) - mean * mean
    IN  [mean |-> mean, variance |-> variance]

\* ------------------------------------------- RTTCalculator (utils/rtt.ts)
POMELO_RTT_SAMPLE_SET_SIZE   == 10
POMELO_RTT_ENTRY_BUFFER_SIZE == 20
POMELO_RTT_MAX_SEQUENCE      == 65535
Null == -1

\* The sequence numbers an RTTCalculator under study starts at: a new one,
\* and one that has issued POMELO_RTT_MAX_SEQUENCE - 9 pings.
RttStarts == {0, POMELO_RTT_MAX_SEQUENCE - 9}

\* The calculator after `issued` calls of next() whose pongs all came
\* back: slot i holds the last sequence below `issued` that maps to it,
\* invalidated.  pings lists the sequences next() returned since, answered
\* the positions in pings whose pong was submitted, now is hrtime(), and
\* last describes the last call.
RTTCalculatorAfter(issued) ==
    [ mean |-> 0, variance |-> 0, entrySequence |-> issued,
      entries |->
        [k \in 1..POMELO_RTT_ENTRY_BUFFER_SIZE |->
            [ time |-> 0, valid |-> FALSE,
              sequence |->
                IF k - 1 < issued
                THEN issued - 1 -
                     ((issued - 1 - (k - 1)) % POMELO_RTT_ENTRY_BUFFER_SIZE)
                ELSE 0 ]],
      sample |-> SampleSet(POMELO_RTT_SAMPLE_SET_SIZE),
      pings |-> <<>>, answered |-> {}, now |-> 1,
      last |-> [op |-> "none", sequence |-> 0, found |-> FALSE] ]

NewRTTCalculator == RTTCalculatorAfter(0)

\* RTTCalculator.entry that does not compare the sequence
RTTCalculator_entry_AnyValid(r, sequence) ==
    LET index == sequence % POMELO_RTT_ENTRY_BUFFER_SIZE
        entry == r.entries[index + 1]
    IN  IF ~entry.valid THEN Null ELSE index

\* RTTCalculator.entry(sequence): the slot found, or Null; slot k of the
\* array is entries[k + 1]
RTTCalculator_entry(r, sequence) ==
    LET index == sequence % POMELO_RTT_ENTRY_BUFFER_SIZE
        entry == r.entries[index + 1]
    IN  IF ~entry.valid \/ entry.sequence # sequence THEN Null ELSE index

\* RTTCalculator.submit(entry, recvTime, deltaTime), entry being a slot
RTTCalculator_submit(r, slot, recvTime, deltaTime) ==
    LET entry == r.entries[slot + 1]
    IN  IF ~entry.valid THEN r
        ELSE LET sample ==
                   SampleSet_submit(r.sample,
                                    recvTime - entry.time - deltaTime)
                 result == SampleSet_calc(sample)
             IN  [r EXCEPT !.entries[slot + 1].valid = FALSE,
                           !.sample = sample,
                           !.mean = result.mean,
                           !.variance = result.variance]

\* RTTCalculator.next(time)
RTTCalculator_next(r, time) ==
    LET sequence == r.entrySequence
        index == sequence % POMELO_RTT_ENTRY_BUFFER_SIZE
    IN  [r EXCEPT !.entrySequence =
                      IF sequence + 1 > POMELO_RTT_MAX_SEQUENCE
                      THEN 0 ELSE sequence + 1,
                  !.entries[index + 1] =
                      [time |-> time, valid |-> TRUE, sequence |-> sequence]]

\* SessionImpl.handlePongMessage, from the entry lookup to the submit
PongLookupSubmit(r, sequence, recvTime) ==
    LET slot == RTTCalculator_entry(r, sequence)
    IN  IF slot = Null THEN r
        ELSE RTTCalculator_submit(r, slot, recvTime, 0)

\* -------------------------------------------------- Clock (utils/clock.ts)
\* Times are counted in units of 0.1 ms (100000 ns), and the values handed
\* to sync are multiples of 1 ms, so that every bigint division made by
\* sync and by SampleSet(10).calc is exact and the model value times the
\* unit is the value the code computes.
Ms == 10

SQR(value) == value * value

POMELO_PROTOCOL_CLOCK_RECENT_OFFSETS_SIZE == 10

POMELO_TIME_CONDITION_RTT_VAR_HIGH   == SQR(10 * Ms)
POMELO_TIME_CONDITION_RTT_VAR_MEDIUM == SQR(5 * Ms)
POMELO_TIME_CONDITION_RTT_VAR_LOW    == SQR(5 * Ms)
POMELO_TIME_HIGH_MIN_TIMES_OF_PING   == 20
POMELO_TIME_HIGH_THRESHOLD_RTT_VAR   == SQR(5 * Ms)
POMELO_TIME_HIGH_MIN_DELTA_OFFSET    == 5 * Ms
POMELO_TIME_MEDIUM_THRESHOLD_RECENT_OFFSETS_VAR == SQR(5 * Ms)
POMELO_TIME_MEDIUM_MIN_DELTA_OFFSET  == 10 * Ms
POMELO_TIME_LOW_MIN_DELTA_MEAN_RECENT_OFFSETS == 10 * Ms

calcDeltaOffset(first, second) ==
    IF first > second THEN first - second ELSE second - first

\* the values of rtt.variance a sync call may find: 0, (7.07 ms)^2 and
\* just above (10 ms)^2
RttVariances == {0, 5000, 10001}

\* the clock offsets of the samples handed to sync: -12 ms, 0, 6 ms
SampleOffsets == {0 - 12 * Ms, 0, 6 * Ms}

\* new Clock(rtt).  The other fields describe the calls made: syncs counts
\* the sync calls, nonRejected those that passed the RTT-variance cap, seen
\* is the set of RTT variances the calls found, steps counts the calls of
\* the run; ret, rejected, sample and before describe the last call: its
\* result, whether the cap rejected it, its sample offset and the level it
\* found.
NewClock ==
    [ level |-> "HIGH",
      recentOffsets |-> SampleSet(POMELO_PROTOCOL_CLOCK_RECENT_OFFSETS_SIZE),
      highSyncCount |-> 0, offset |-> 0,
      syncs |-> 0, nonRejected |-> 0, seen |-> {}, steps |-> 0,
      ret |-> FALSE, rejected |-> FALSE, sample |-> 0, before |-> "HIGH" ]

\* Clock.syncHigh that counts to one less than the minimum
Clock_syncHigh_Early(c, rttVar, offset) ==
    IF rttVar > POMELO_TIME_CONDITION_RTT_VAR_HIGH
    THEN [c EXCEPT !.ret = FALSE, !.rejected = TRUE]
    ELSE LET c1 == IF c.highSyncCount < POMELO_TIME_HIGH_MIN_TIMES_OF_PING - 1
                   THEN [c EXCEPT !.highSyncCount = @ + 1]
                   ELSE IF rttVar < POMELO_TIME_HIGH_THRESHOLD_RTT_VAR
                   THEN [c EXCEPT !.level = "MEDIUM"]
                   ELSE c
             deltaOffset == calcDeltaOffset(offset, c.offset)
         IN  IF deltaOffset > POMELO_TIME_HIGH_MIN_DELTA_OFFSET
             THEN [c1 EXCEPT !.offset = offset, !.ret = TRUE,
                             !.rejected = FALSE]
             ELSE [c1 EXCEPT !.ret = FALSE, !.rejected = FALSE]

\* Clock.syncHigh(offset), rttVar being this.rtt.variance
Clock_syncHigh(c, rttVar, offset) ==
    IF rttVar > POMELO_TIME_CONDITION_RTT_VAR_HIGH
    THEN [c EXCEPT !.ret = FALSE, !.rejected = TRUE]
    ELSE LET c1 == IF c.highSyncCount < POMELO_TIME_HIGH_MIN_TIMES_OF_PING
                   THEN [c EXCEPT !.highSyncCount = @ + 1]
                   ELSE IF rttVar < POMELO_TIME_HIGH_THRESHOLD_RTT_VAR
                   THEN [c EXCEPT !.level = "MEDIUM"]
                   ELSE c
             deltaOffset == calcDeltaOffset(offset, c.offset)
         IN  IF deltaOffset > POMELO_TIME_HIGH_MIN_DELTA_OFFSET
             THEN [c1 EXCEPT !.offset = offset, !.ret = TRUE,
                             !.rejected = FALSE]
             ELSE [c1 EXCEPT !.ret = FALSE, !.rejected = FALSE]

\* Clock.syncMedium that falls back to HIGH on a rejected sample
Clock_syncMedium_FallsBack(c, rttVar, offset) ==
    IF rttVar > POMELO_TIME_CONDITION_RTT_VAR_MEDIUM
    THEN [c EXCEPT !.ret = FALSE, !.rejected = TRUE, !.level = "HIGH",
                   !.highSyncCount = 0]
    ELSE LET variance == SampleSet_calc(c.recentOffsets).variance
             c1 == IF variance <
                        POMELO_TIME_MEDIUM_THRESHOLD_RECENT_OFFSETS_VAR
                   THEN [c EXCEPT !.level = "LOW"]
                   ELSE c
             deltaOffset == calcDeltaOffset(offset, c.offset)
         IN  IF deltaOffset > POMELO_TIME_MEDIUM_MIN_DELTA_OFFSET
             THEN [c1 EXCEPT !.offset = offset, !.ret = TRUE,
                             !.rejected = FALSE]
             ELSE [c1 EXCEPT !.ret = FALSE, !.rejected = FALSE]

\* Clock.syncMedium(offset)
Clock_syncMedium(c, rttVar, offset) ==
    IF rttVar > POMELO_TIME_CONDITION_RTT_VAR_MEDIUM
    THEN [c EXCEPT !.ret = FALSE, !.rejected = TRUE]
    ELSE LET variance == SampleSet_calc(c.recentOffsets).variance
             c1 == IF variance <
                        POMELO_TIME_MEDIUM_THRESHOLD_RECENT_OFFSETS_VAR
                   THEN [c EXCEPT !.level = "LOW"]
                   ELSE c
             deltaOffset == calcDeltaOffset(offset, c.offset)
         IN  IF deltaOffset > POMELO_TIME_MEDIUM_MIN_DELTA_OFFSET
             THEN [c1 EXCEPT !.offset = offset, !.ret = TRUE,
                             !.rejected = FALSE]
             ELSE [c1 EXCEPT !.ret = FALSE, !.rejected = FALSE]

\* Clock.syncLow that takes the sample offset instead of the mean
Clock_syncLow_SampleOffset(c, rttVar, offset) ==
    IF rttVar > POMELO_TIME_CONDITION_RTT_VAR_LOW
    THEN [c EXCEPT !.ret = FALSE, !.rejected = TRUE]
    ELSE LET mean == SampleSet_calc(c.recentOffsets).mean
             deltaOffset == calcDeltaOffset(mean, offset)
         IN  IF deltaOffset > POMELO_TIME_LOW_MIN_DELTA_MEAN_RECENT_OFFSETS
             THEN [c EXCEPT !.offset = offset, !.ret = TRUE,
                            !.rejected = FALSE]
             ELSE [c EXCEPT !.ret = FALSE, !.rejected = FALSE]

\* Clock.syncLow(offset)
Clock_syncLow(c, rttVar, offset) ==
    IF rttVar > POMELO_TIME_CONDITION_RTT_VAR_LOW
    THEN [c EXCEPT !.ret = FALSE, !.rejected = TRUE]
    ELSE LET mean == SampleSet_calc(c.recentOffsets).mean
             deltaOffset == calcDeltaOffset(mean, offset)
         IN  IF deltaOffset > POMELO_TIME_LOW_MIN_DELTA_MEAN_RECENT_OFFSETS
             THEN [c EXCEPT !.offset = mean, !.ret = TRUE,
                            !.rejected = FALSE]
             ELSE [c EXCEPT !.ret = FALSE, !.rejected = FALSE]

\* Clock.sync(reqSendTime, reqRecvTime, resSendTime, resRecvTime), rttVar
\* being the value of this.rtt.variance during the call
Clock_sync(c, rttVar, reqSendTime, reqRecvTime, resSendTime, resRecvTime) ==
    LET offset == BigIntDiv((reqRecvTime - reqSendTime) +
                            (resSendTime - resRecvTime), 2)
        c0 == [c EXCEPT !.recentOffsets = SampleSet_submit(@, offset),
                        !.syncs = @ + 1,
                        !.steps = @ + 1,
                        !.seen = @ \cup {rttVar},
                        !.sample = offset,
                        !.before = c.level]
        c1 == CASE c.level = "HIGH" -> Clock_syncHigh(c0, rttVar, offset)
                [] c.level = "MEDIUM" -> Clock_syncMedium(c0, rttVar, offset)
                [] c.level = "LOW" -> Clock_syncLow(c0, rttVar, offset)
    IN  [c1 EXCEPT !.nonRejected = IF c1.rejected THEN @ ELSE @ + 1]

\* The clock after n sync calls that found an RTT variance of 0 and a
\* sample offset of 0.
RECURSIVE ClockAfter(_)
ClockAfter(n) ==
    IF n = 0 THEN NewClock
    ELSE [Clock_sync(ClockAfter(n - 1), 0, 0, 0, 0, 0) EXCEPT !.steps = 0]

\* The clocks under study: a new one, and one two calls short of the
\* minimum number of pings at level HIGH.
ClockStarts == {0, POMELO_TIME_HIGH_MIN_TIMES_OF_PING - 2}

\* ---------------------------------------------- Payload (utils/payload.ts)
\* A uint64 bigint is the sequence of its 8 octets, lowest first.
Zero64 == [j \in 1..8 |-> 0]

\* 2^(8k)
Pow256(k) == [j \in 1..8 |-> IF j = k + 1 THEN 1 ELSE 0]

\* 2^(8k) - 1
Pow256Minus1(k) == [j \in 1..8 |-> IF j <= k THEN 255 ELSE 0]

\* the uint64 values handed to the packed calls: 0, 2^(8k) for k = 1..7,
\* 2^(8k) - 1 for k = 1..8
U64Values ==
    {Zero64} \cup {Pow256(k) : k \in 1..7} \cup {Pow256Minus1(k) : k \in 1..8}

\* the bigint literal that has `ff` octets 0xFF above `low` octets 0x00:
\* Mask64(6, 1) is 0xFF000000000000n
Mask64(low, ff) == [j \in 1..8 |-> IF j > low /\ j <= low + ff THEN 255 ELSE 0]

\* value & mask, for a mask whose octets are 0x00 or 0xFF
BigIntAnd(value, mask) ==
    [j \in 1..8 |-> IF mask[j] = 255 THEN value[j] ELSE 0]

\* a bigint as a condition: true unless it is 0n
Truthy(value) == \E j \in 1..8 : value[j] # 0

\* value >> 8n
ShiftRight8(value) == [j \in 1..8 |-> IF j < 8 THEN value[j + 1] ELSE 0]

\* Number(value & 0xFFn)
LowOctet(value) == BigIntAnd(value, Mask64(0, 1))[1]

\* value | (byte << (i * 8n)), for a value whose octet i is still 0
OrShifted(value, byte, i) == [value EXCEPT ![i + 1] = byte]

\* Payload.calcPackedUint64Bytes(value)
calcPackedUint64Bytes(value) ==
    IF Truthy(BigIntAnd(value, Mask64(4, 4)))          \* 0xFFFFFFFF00000000n
    THEN IF Truthy(BigIntAnd(value, Mask64(6, 2)))     \* 0xFFFF000000000000n
         THEN IF Truthy(BigIntAnd(value, Mask64(6, 1))) \* 0xFF000000000000n
              THEN 8
              ELSE 7
         ELSE IF Truthy(BigIntAnd(value, Mask64(5, 3))) \* 0xFFFFFF0000000000n
              THEN 6
              ELSE 5
    ELSE IF Truthy(BigIntAnd(value, Mask64(2, 2)))     \* 0xFFFF0000n
         THEN IF Truthy(BigIntAnd(value, Mask64(3, 1))) \* 0xFF000000n
              THEN 4
              ELSE 3
         ELSE IF Truthy(BigIntAnd(value, Mask64(1, 1))) \* 0xFF00n
              THEN 2
              ELSE 1

\* the bytes a buffer holds, and the byte arrays handed to prepare
BufferBytes == {0, 65}
Buffers == UNION {[1..n -> BufferBytes] : n \in 0..MaxBufLen}

\* the capacity handed to prepare for writing: room for one packed uint64
PackedCapacity == 8

\* new Payload(): byte k of data is data[k + 1].  ops counts the calls;
\* op, threw, before, arg, bytes and ret describe the last call: which one
\* it was, whether it threw, the cursor it found, its bigint argument, its
\* byte count and what it returned (a bigint as its octets, a string as its
\* code units, a number as a sequence of one element); wrote describes the
\* last writePackedUint64 since prepare.
NewPayload ==
    [ data |-> <<>>, position |-> 0, capacity |-> 0,
      ops |-> 0, op |-> "none", threw |-> FALSE, before |-> 0,
      arg |-> <<>>, bytes |-> 0, ret |-> <<>>,
      wrote |-> [valid |-> FALSE, value |-> <<>>, at |-> 0, bytes |-> 0] ]

\* the start of every call
Called(pl, op) ==
    [pl EXCEPT !.ops = @ + 1, !.op = op, !.threw = FALSE,
               !.before = pl.position, !.arg = <<>>, !.bytes = 0,
               !.ret = <<>>]

\* Payload.prepare(dataOrCapacity) with a Uint8Array
Payload_prepare(pl, data) ==
    [Called(pl, "prepare") EXCEPT !.data = data, !.capacity = Len(data),
                                  !.position = 0, !.wrote.valid = FALSE]

\* Payload.prepare(dataOrCapacity) with a number
Payload_prepareCapacity(pl, capacity) ==
    LET data == IF Len(pl.data) < capacity
                THEN [k \in 1..capacity |-> 0] ELSE pl.data
    IN  [Called(pl, "prepare") EXCEPT !.data = data, !.capacity = Len(data),
                                      !.position = 0, !.wrote.valid = FALSE]

\* Payload.reset()
Payload_reset(pl) == [Called(pl, "reset") EXCEPT !.position = 0]

\* Payload.writeUint8(value)
Payload_writeUint8(pl, value) ==
    IF pl.position + 1 > pl.capacity THEN [pl EXCEPT !.threw = TRUE]
    ELSE [pl EXCEPT !.data[pl.position + 1] = value, !.position = @ + 1]

\* Payload.readUint8(): the payload after the call, ret the value read
Payload_readUint8(pl) ==
    IF pl.position + 1 > pl.capacity THEN [pl EXCEPT !.threw = TRUE]
    ELSE [pl EXCEPT !.ret = <<pl.data[pl.position + 1]>>, !.position = @ + 1]

\* the loop of writePackedUint64 from iteration i on
RECURSIVE WriteLoop(_, _, _, _)
WriteLoop(pl, i, bytes, value) ==
    IF i >= bytes THEN pl
    ELSE WriteLoop(Payload_writeUint8(pl, LowOctet(value)), i + 1, bytes,
                   ShiftRight8(value))

\* Payload.writePackedUint64(bytes, value)
Payload_writePackedUint64(pl, bytes, value) ==
    LET p0 == [Called(pl, "writePackedUint64") EXCEPT
                  !.arg = value, !.bytes = bytes]
    IN  IF pl.position + bytes > pl.capacity THEN [p0 EXCEPT !.threw = TRUE]
        ELSE [WriteLoop(p0, 0, bytes, value) EXCEPT
                 !.wrote = [valid |-> TRUE, value |-> value,
                            at |-> pl.position, bytes |-> bytes]]

\* the loop of readPackedUint64 from iteration i on; ret holds value
RECURSIVE ReadLoop(_, _, _)
ReadLoop(pl, i, bytes) ==
    IF i >= bytes THEN pl
    ELSE LET value == pl.ret
             p1 == Payload_readUint8(pl)
             byte == p1.ret[1]
         IN  ReadLoop([p1 EXCEPT !.ret = OrShifted(value, byte, i)],
                      i + 1, bytes)

\* Payload.readPackedUint64(bytes)
Payload_readPackedUint64(pl, bytes) ==
    LET p0 == [Called(pl, "readPackedUint64") EXCEPT !.bytes = bytes]
    IN  IF pl.position + bytes > pl.capacity THEN [p0 EXCEPT !.threw = TRUE]
        ELSE ReadLoop([p0 EXCEPT !.ret = Zero64], 0, bytes)

\* decodeString(data): String.fromCharCode of every byte, the string being
\* the sequence of its code units
decodeString(data) == [k \in DOMAIN data |-> data[k]]

\* Payload.readString()
Payload_readString(pl) ==
    LET p0 == Called(pl, "readString")
        zeros == {i \in pl.position..(Len(pl.data) - 1) : pl.data[i + 1] = 0}
    IN  IF zeros = {} THEN p0
        ELSE LET zeroIndex == CHOOSE i \in zeros : \A j \in zeros : i <= j
                 data == SubSeq(pl.data, pl.position + 1, zeroIndex)
             IN  [p0 EXCEPT !.ret = decodeString(data),
                            !.position = @ + (zeroIndex + 1)]

\* ------------------------------------------- system channel (session.ts)
\* The session's rttCalc and clock are the variables rtt and clock.  An
\* environment is what a handler of the system channel reads and writes:
\* the session, its rttCalc, its clock and the shared statistic.  nSysIn
\* counts the messages delivered on the system channel, sysIn is the last
\* of them and sysThrew tells that its handler threw; nSysOut counts the
\* packets handed to the system data channel, sysOut is the last of them,
\* and lateSys records that a closed session handed one over.
SYS_OPCODE_PING == 0
SYS_OPCODE_PONG == 1
PING_PONG_MESSAGE_CAPACITY == 9

\* a bigint below 2^24 as its eight octets, low first, and back
ToU64(n) ==
    [j \in 1..8 |-> CASE j = 1 -> n % 256
                      [] j = 2 -> (n \div 256) % 256
                      [] j = 3 -> (n \div 65536) % 256
                      [] OTHER -> 0]

FromU64(value) == value[1] + 256 * value[2] + 65536 * value[3]

Small64(value) == \A j \in 4..8 : value[j] = 0

\* new Payload(capacity), as PayloadPool.create makes it: the pool is not
\* handed over, so release() of such a payload does nothing and every
\* acquire() constructs a new one
PayloadPool_create(capacity) ==
    [NewPayload EXCEPT !.data = [k \in 1..capacity |-> 0],
                       !.capacity = capacity]

\* this.systemChannel?.send(buffer).  The channel hands the buffer to
\* outgoingDataChannel.send, which throws unless the data channel is open;
\* a closed session that gets as far as this call is recorded in lateSys.
SystemChannel_send(e, buffer) ==
    IF e.s.sysDc = "none" \/ ~e.s.sysActive THEN e
    ELSE IF e.s.sysDc # "open"
    THEN [e EXCEPT !.s.sysThrew = TRUE, !.s.lateSys = @ \/ ~e.s.active]
    ELSE LET r == ChannelImpl_send(e.s.sysActive, e.statistic, Len(buffer))
         IN  [e EXCEPT !.statistic = r.statistic,
                       !.s.nSysOut = @ + 1,
                       !.s.sysOut = buffer,
                       !.s.lateSys = @ \/ ~e.s.active]

\* SessionImpl.replyPongMessage(sequence, recvTime); payload.pack() is the
\* data up to the cursor
replyPongMessage(e, sequence) ==
    LET sequenceBytes == calcPackedUint64Bytes(sequence)
        header == SYS_OPCODE_PONG * 64 + ((sequenceBytes - 1) % 8) * 8
        p1 == Payload_writeUint8(
                  PayloadPool_create(PING_PONG_MESSAGE_CAPACITY), header)
        p2 == Payload_writePackedUint64(p1, sequenceBytes, sequence)
    IN  SystemChannel_send(e, SubSeq(p2.data, 1, p2.position))

\* SessionImpl.handlePingMessage(buffer, recvTime)
handlePingMessage(e, buffer) ==
    LET p1 == Payload_readUint8(Payload_prepare(PayloadPool_create(0), buffer))
        header == p1.ret[1]
        sequenceBytes == ((header \div 8) % 8) + 1
        p2 == Payload_readPackedUint64(p1, sequenceBytes)
    IN  IF p2.threw THEN [e EXCEPT !.s.sysThrew = TRUE]
        ELSE replyPongMessage(e, p2.ret)

\* handlePongMessage that calls clock.sync whether or not the entry is
\* found
handlePongMessage_AlwaysSyncs(e, buffer, recvTime) ==
    LET p1 == Payload_readUint8(Payload_prepare(PayloadPool_create(0), buffer))
        header == p1.ret[1]
        sequenceBytes == ((header \div 8) % 8) + 1
        socketTimeBytes == (header % 8) + 1
        p2 == Payload_readPackedUint64(p1, sequenceBytes)
        p3 == Payload_readPackedUint64(p2, socketTimeBytes)
    IN  IF p2.threw \/ p3.threw THEN [e EXCEPT !.s.sysThrew = TRUE]
        ELSE LET socketTime == FromU64(p3.ret)
                 slot == IF Small64(p2.ret)
                         THEN RTTCalculator_entry(e.rtt, FromU64(p2.ret))
                         ELSE Null
                 sendTime == IF slot = Null THEN 0
                             ELSE e.rtt.entries[slot + 1].time
                 r1 == IF slot = Null THEN e.rtt
                       ELSE RTTCalculator_submit(e.rtt, slot, recvTime, 0)
             IN  [e EXCEPT !.rtt = r1,
                           !.clock = Clock_sync(e.clock, r1.variance,
                                                sendTime, socketTime,
                                                socketTime, recvTime)]

\* SessionImpl.handlePongMessage(buffer, recvTime).  entry.sequence is at
\* most 0xFFFF, so a sequence of 2^24 or more finds no entry.
handlePongMessage(e, buffer, recvTime) ==
    LET p1 == Payload_readUint8(Payload_prepare(PayloadPool_create(0), buffer))
        header == p1.ret[1]
        sequenceBytes == ((header \div 8) % 8) + 1
        socketTimeBytes == (header % 8) + 1
        p2 == Payload_readPackedUint64(p1, sequenceBytes)
        p3 == Payload_readPackedUint64(p2, socketTimeBytes)
    IN  IF p2.threw \/ p3.threw THEN [e EXCEPT !.s.sysThrew = TRUE]
        ELSE LET socketTime == FromU64(p3.ret)
                 slot == IF Small64(p2.ret)
                         THEN RTTCalculator_entry(e.rtt, FromU64(p2.ret))
                         ELSE Null
             IN  IF slot = Null THEN e
                 ELSE LET sendTime == e.rtt.entries[slot + 1].time
                          r1 == RTTCalculator_submit(e.rtt, slot, recvTime, 0)
                      IN  [e EXCEPT !.rtt = r1,
                                    !.clock =
                                        Clock_sync(e.clock, r1.variance,
                                                   sendTime, socketTime,
                                                   socketTime, recvTime)]

\* SessionImpl.handleSystemMessage(buffer, recvTime)
handleSystemMessage(e, buffer, recvTime) ==
    IF Len(buffer) < 1 THEN e
    ELSE LET opcode == buffer[1] \div 64
         IN  CASE opcode = SYS_OPCODE_PING -> handlePingMessage(e, buffer)
               [] opcode = SYS_OPCODE_PONG ->
                     handlePongMessage(e, buffer, recvTime)
               [] OTHER -> e

\* SessionImpl.sendPingMessage(), hrtime() being time
sendPingMessage(e, time) ==
    LET r1 == RTTCalculator_next(e.rtt, time)
        sequence == ToU64(e.rtt.entrySequence)
        sequenceBytes == calcPackedUint64Bytes(sequence)
        header == SYS_OPCODE_PING * 64 + ((sequenceBytes - 1) % 8) * 8
        p1 == Payload_writeUint8(
                  PayloadPool_create(PING_PONG_MESSAGE_CAPACITY), header)
        p2 == Payload_writePackedUint64(p1, sequenceBytes, sequence)
    IN  SystemChannel_send([e EXCEPT !.rtt = r1],
                           SubSeq(p2.data, 1, p2.position))

\* What the peer sends on the system channel.  A PING is a header with
\* opcode 0 and the byte count of the sequence minus one in bits 3..5,
\* then the sequence, low octet first; a PONG has opcode 1 and the byte
\* count of the socket time minus one in bits 0..2, and the socket time
\* after the sequence.
PeerPing(sequence, w) ==
    <<SYS_OPCODE_PING * 64 + (w - 1) * 8>> \o SubSeq(sequence, 1, w)

PeerPong(sequence, w, socketTime, tw) ==
    <<SYS_OPCODE_PONG * 64 + (w - 1) * 8 + (tw - 1)>>
        \o SubSeq(sequence, 1, w) \o SubSeq(socketTime, 1, tw)

\* The messages delivered: PINGs with the sequences 0, 2^48 and 2^56 in
\* the fewest octets and with the sequence 256 in all 8; PONGs for the
\* sequence 0 with a socket time of 1 ms or 3 ms and for the sequences 1
\* and 2^24; an empty message, one with opcode 2, and a PING and a PONG cut
\* after the header.
SysBuffers ==
    {PeerPing(Zero64, 1), PeerPing(Pow256(1), 8),
     PeerPing(Pow256(6), 7), PeerPing(Pow256(7), 8)}
      \cup {PeerPong(ToU64(0), 1, ToU64(t), 1) : t \in {Ms, 3 * Ms}}
      \cup {PeerPong(ToU64(1), 1, ToU64(Ms), 1)}
      \cup {PeerPong(Pow256(3), 4, ToU64(Ms), 1)}
      \cup {<<>>, <<128>>, <<SYS_OPCODE_PING * 64 + 8>>, <<SYS_OPCODE_PONG * 64>>}

\* --------------------------------------------------------------- actions
InitWith(maxAddresses, events) ==
    /\ trackOrder = FALSE
    /\ sess = <<>>
    /\ sockPc = "idle"
    /\ sockResult = NoResult
    /\ sockSession = 0
    /\ token \in [addresses : maxAddresses, timeout : {0, 10}]
    /\ addresses = 0
    /\ timeout = 0
    /\ onConnected = <<>>
    /\ nFrames = 0
    /\ budget = events
    /\ socketStatistic = NewStatistic
    /\ nInvalid = 0
    /\ signal = NewSignal
    /\ pool = NewPool
    /\ rtt = NewRTTCalculator
    /\ sampleSet = NewSampleSet
    /\ clock = NewClock
    /\ payload = NewPayload

\* A socket about to connect with a token that names one endpoint.
Init == InitWith({1}, MaxEvents)

\* A socket about to connect with a token that names 0..MaxEndpoints
\* endpoints.
SocketInit == InitWith(0..MaxEndpoints, MaxSockEvents)

\* connect that clears the current session before it checks the length
Connect_DropsSession(byteLength) ==
    IF byteLength # POMELO_CONNECT_TOKEN_BYTES
    THEN /\ nInvalid < MaxInvalid
         /\ nInvalid' = nInvalid + 1
         /\ sockSession' = 0
         /\ UNCHANGED <<sess, sockPc, sockResult, token, addresses,
                        timeout, onConnected, nFrames, budget,
                        socketStatistic>>
         /\ UNCHANGED <<utilVars, trackOrder>>
    ELSE /\ sockPc = "idle"
         /\ addresses' = token.addresses
         /\ timeout' = token.timeout
         /\ IF token.addresses = 0
            THEN /\ sockPc' = "returned"
                 /\ sockResult' = DENIED
                 /\ sess' = sess
            ELSE /\ sockPc' = "awaiting"
                 /\ sockResult' = sockResult
                 /\ sess' = <<NewSession(token.timeout)>>
         /\ UNCHANGED <<sockSession, onConnected, nFrames, budget, token,
                        socketStatistic, nInvalid>>
         /\ UNCHANGED <<utilVars, trackOrder>>

\* Socket.connect(connectToken) for a token of byteLength bytes, up to its
\* throw, its first await or its return.  The token of the right length
\* is `token`, and the socket is handed it once.
Connect(byteLength) ==
    IF byteLength # POMELO_CONNECT_TOKEN_BYTES
    THEN /\ nInvalid < MaxInvalid
         /\ nInvalid' = nInvalid + 1
         /\ UNCHANGED <<sess, sockPc, sockResult, sockSession, token,
                        addresses, timeout, onConnected, nFrames, budget,
                        socketStatistic>>
         /\ UNCHANGED <<utilVars, trackOrder>>
    ELSE /\ sockPc = "idle"
         /\ addresses' = token.addresses
         /\ timeout' = token.timeout
         /\ IF token.addresses = 0
            THEN /\ sockPc' = "returned"
                 /\ sockResult' = DENIED
                 /\ sess' = sess
            ELSE /\ sockPc' = "awaiting"
                 /\ sockResult' = sockResult
                 /\ sess' = <<NewSession(token.timeout)>>
         /\ UNCHANGED <<sockSession, onConnected, nFrames, budget, token,
                        socketStatistic, nInvalid>>
         /\ UNCHANGED <<utilVars, trackOrder>>

\* Socket.stop()
Stop ==
    /\ sockSession # 0
    /\ sess' = [sess EXCEPT ![sockSession] = CallDisconnect(@)]
    /\ sockSession' = 0
    /\ budget > 0
    /\ budget' = budget - 1
    /\ UNCHANGED <<sockPc, sockResult, token, addresses, timeout,
                   onConnected, nFrames, socketStatistic, nInvalid>>
    /\ UNCHANGED <<utilVars, trackOrder>>

\* ws.onopen: sendWS(AUTH, token)
WsOpen(i) ==
    /\ i \in Sessions
    /\ sess[i].ws = "connecting"
    /\ Finish(i, sendWS([sess[i] EXCEPT !.ws = "open"], OPCODE_AUTH), 1)
    /\ UNCHANGED nFrames

\* ws.onclose: the peer or the network closed the signaling transport
WsRemoteClose(i) ==
    /\ i \in Sessions
    /\ sess[i].ws \in {"connecting", "open"}
    /\ Finish(i, SessionImpl_close([sess[i] EXCEPT !.ws = "closed"]).st, 1)
    /\ UNCHANGED nFrames

\* ws.onclose: the close event that follows the session's own ws.close()
WsCloseEvent(i) ==
    /\ i \in Sessions
    /\ sess[i].ws = "closing"
    /\ Finish(i, SessionImpl_close([sess[i] EXCEPT !.ws = "closed"]).st, 1)
    /\ UNCHANGED nFrames

\* The order of the frames' effects.  A frame is numbered by its arrival;
\* inflightNo, descNo1 and descNo2 hold the numbers of the frames whose
\* handler is suspended at `await data.text()`, at the first and at the
\* second await of handleRemoteDescription.  lastEffect is the highest
\* number of a frame that has changed the session or sent something, kept
\* while a frame that arrived before it is still being handled and 0
\* otherwise; disorder tells that the step just taken was the effect of a
\* frame that arrived before the frame of lastEffect.  Only the order of
\* the numbers matters, so they are kept as ranks 1, 2, ...  All of this
\* is recorded when trackOrder is set and left empty otherwise.
Stamps(s) ==
    UNION {{q[k] : k \in DOMAIN q} : q \in {s.inflightNo, s.descNo1, s.descNo2}}

Settle(s) ==
    IF ~trackOrder THEN s ELSE
    LET kept == IF \E m \in Stamps(s) : m < s.lastEffect
                THEN {s.lastEffect} ELSE {}
        all == Stamps(s) \cup kept
        Rank(x) == Cardinality({y \in all : y <= x})
    IN  [s EXCEPT !.inflightNo = [k \in DOMAIN @ |-> Rank(@[k])],
                  !.descNo1 = [k \in DOMAIN @ |-> Rank(@[k])],
                  !.descNo2 = [k \in DOMAIN @ |-> Rank(@[k])],
                  !.lastEffect = IF kept = {} THEN 0 ELSE Rank(@),
                  !.disorder = FALSE]

Took(s, n) ==
    IF ~trackOrder THEN s
    ELSE [Settle([s EXCEPT !.lastEffect = IF n > @ THEN n ELSE @])
             EXCEPT !.disorder = n < s.lastEffect]

\* queue q without its k-th element, and with n appended
Without(q, k) ==
    IF ~trackOrder THEN q
    ELSE SubSeq(q, 1, k - 1) \o SubSeq(q, k + 1, Len(q))

With(q, n) == IF ~trackOrder THEN q ELSE Append(q, n)

First(q) == IF ~trackOrder THEN 0 ELSE Head(q)

\* the number given to a frame that arrives
NextStamp(s) ==
    1 + Cardinality(Stamps(s) \cup
                    (IF s.lastEffect = 0 THEN {} ELSE {s.lastEffect}))

\* ws.onmessage: handleWSMessage starts and suspends at `await data.text()`
WsMessage(i) ==
    /\ i \in Sessions
    /\ sess[i].ws = "open"
    /\ nFrames < MaxFrames
    /\ \E f \in 1..Len(Frames) :
          Finish(i, [sess[i] EXCEPT !.inflight = Append(@, f),
                                    !.inflightNo =
                                        With(@, NextStamp(sess[i])),
                                    !.disorder = FALSE], 1)
    /\ nFrames' = nFrames + 1

\* handleWSMessage resumes for a suspended frame: `await data.text()` of
\* its Blob has resolved.  The reads of different Blobs are independent,
\* so any suspended handler may be the next to resume.
ResumeFrame(i) ==
    /\ i \in Sessions
    /\ \E k \in 1..Len(sess[i].inflight) :
          LET n  == IF trackOrder THEN sess[i].inflightNo[k] ELSE 0
              s0 == [sess[i] EXCEPT
                        !.inflight =
                            SubSeq(@, 1, k - 1) \o SubSeq(@, k + 1, Len(@)),
                        !.inflightNo = Without(@, k)]
              s1 == handleWSMessage(s0, Frames[sess[i].inflight[k]])
          IN  Finish(i, IF s1 = s0 THEN Settle(s1)
                        ELSE Took([s1 EXCEPT !.descNo1 =
                                      IF s1.descAwait1 > s0.descAwait1
                                      THEN With(@, n) ELSE @], n), 0)
    /\ UNCHANGED nFrames

\* handleRemoteDescription resumes after `await pc.setRemoteDescription()`;
\* on a closed peer connection the promise rejects and the handler ends.
DescRemoteSet(i) ==
    /\ i \in Sessions
    /\ sess[i].descAwait1 > 0
    /\ Finish(i, IF sess[i].pc = "live"
                 THEN Took([sess[i] EXCEPT
                               !.descAwait1 = @ - 1,
                               !.descAwait2 = @ + 1,
                               !.remoteSet = TRUE,
                               !.descNo1 = Without(@, 1),
                               !.descNo2 = With(@, First(sess[i].descNo1))],
                           First(sess[i].descNo1))
                 ELSE Settle([sess[i] EXCEPT !.descAwait1 = @ - 1,
                                             !.descNo1 = Without(@, 1)]), 0)
    /\ UNCHANGED nFrames

\* handleRemoteDescription resumes after `await pc.setLocalDescription()`
\* and sends the local description; on a closed peer connection the
\* promise rejects and nothing is sent.
DescLocalSet(i) ==
    /\ i \in Sessions
    /\ sess[i].descAwait2 > 0
    /\ Finish(i, IF sess[i].pc = "live"
                 THEN Took(sendWS([sess[i] EXCEPT !.descAwait2 = @ - 1,
                                                  !.localSet = TRUE,
                                                  !.descNo2 = Without(@, 1)],
                                  OPCODE_DESCRIPTION),
                           First(sess[i].descNo2))
                 ELSE Settle([sess[i] EXCEPT !.descAwait2 = @ - 1,
                                             !.descNo2 = Without(@, 1)]), 0)
    /\ UNCHANGED nFrames

\* pc.onicecandidate: a gathered candidate, or null at the end of gathering
IceCandidate(i) ==
    /\ i \in Sessions
    /\ sess[i].localSet
    /\ sess[i].pc = "live"
    /\ \E candidate \in BOOLEAN :
          Finish(i, IF candidate THEN sendWS(sess[i], OPCODE_CANDIDATE)
                    ELSE sess[i], 1)
    /\ UNCHANGED nFrames

\* outgoingDataChannel.onopen of client channel c
DcOpen(i, c) ==
    /\ i \in Sessions
    /\ sess[i].remoteSet
    /\ sess[i].dc[c] = "connecting"
    /\ Finish(i, CountOpened([sess[i] EXCEPT !.dc[c] = "open",
                                             !.chOpened[c] = TRUE]), 1)
    /\ UNCHANGED nFrames

\* outgoingDataChannel.onclose of client channel c: the peer closed it
DcRemoteClose(i, c) ==
    /\ i \in Sessions
    /\ sess[i].dc[c] = "open"
    /\ Finish(i, ChannelImpl_close([sess[i] EXCEPT !.dc[c] = "closed"], c), 1)
    /\ UNCHANGED nFrames

\* outgoingDataChannel.onclose of client channel c: the close event that
\* follows a close() of the channel or of the peer connection
DcCloseEvent(i, c) ==
    /\ i \in Sessions
    /\ sess[i].dc[c] = "closing"
    /\ Finish(i, ChannelImpl_close([sess[i] EXCEPT !.dc[c] = "closed"], c), 1)
    /\ UNCHANGED nFrames

\* pc.ondatachannel: the peer announces a channel labelled "system"
OnDataChannelSystem(i) ==
    /\ i \in Sessions
    /\ sess[i].remoteSet
    /\ sess[i].pc = "live"
    /\ Finish(i, AdoptSystemChannel(sess[i]), 1)
    /\ UNCHANGED nFrames

\* pc.ondatachannel: the peer announces "server-channel-<c>"
OnDataChannelServer(i, c) ==
    /\ i \in Sessions
    /\ sess[i].remoteSet
    /\ sess[i].pc = "live"
    /\ sess[i].inc[c] = "none"
    /\ Finish(i, setIncomingDataChannel(sess[i], c), 1)
    /\ UNCHANGED nFrames

\* incomingDataChannel.onclose of client channel c: the peer closed it
IncRemoteClose(i, c) ==
    /\ i \in Sessions
    /\ sess[i].inc[c] = "open"
    /\ Finish(i, ChannelImpl_close([sess[i] EXCEPT !.inc[c] = "closed"], c), 1)
    /\ UNCHANGED nFrames

\* incomingDataChannel.onclose of client channel c after a local close
IncCloseEvent(i, c) ==
    /\ i \in Sessions
    /\ sess[i].inc[c] = "closing"
    /\ Finish(i, ChannelImpl_close([sess[i] EXCEPT !.inc[c] = "closed"], c), 1)
    /\ UNCHANGED nFrames

\* onclose of the system channel's data channel: the peer closed it
SysRemoteClose(i) ==
    /\ i \in Sessions
    /\ sess[i].sysDc = "open"
    /\ Finish(i, SystemChannel_close([sess[i] EXCEPT !.sysDc = "closed"]), 1)
    /\ UNCHANGED nFrames

\* onclose of the system channel's data channel after pc.close()
SysCloseEvent(i) ==
    /\ i \in Sessions
    /\ sess[i].sysDc = "closing"
    /\ Finish(i, SystemChannel_close([sess[i] EXCEPT !.sysDc = "closed"]), 1)
    /\ UNCHANGED nFrames

\* incomingDataChannel.onmessage of client channel c
DcMessage(i, c) ==
    /\ i \in Sessions
    /\ sess[i].inc[c] = "open"
    /\ sess[i].nMessages < MaxMessages
    /\ \E byteLength \in ByteLengths :
          FinishWith(i, EmitMessage(sess[i]), 1,
                     [socketStatistic EXCEPT
                         !.webrtc.totalRecvBytes = @ + byteLength])
    /\ UNCHANGED nFrames

\* pc.onconnectionstatechange with state "disconnected" or "failed":
\* the handler calls pc.close()
PcFailed(i) ==
    /\ i \in Sessions
    /\ sess[i].remoteSet
    /\ sess[i].pc = "live"
    /\ Finish(i, PcClose(sess[i]), 1)
    /\ UNCHANGED nFrames

\* pc.onconnectionstatechange with state "closed": the handler calls close()
PcClosed(i) ==
    /\ i \in Sessions
    /\ sess[i].pc = "closed"
    /\ Finish(i, SessionImpl_close(sess[i]).st, 1)
    /\ UNCHANGED nFrames

\* the connect-timeout timer fires
ConnectTimeout(i) ==
    /\ i \in Sessions
    /\ sess[i].connectTimeout = "armed"
    /\ Finish(i, ConnectTimeoutCallback(
                    [sess[i] EXCEPT !.connectTimeout = "fired"]), 0)
    /\ UNCHANGED nFrames

\* the application calls session.disconnect()
Disconnect(i) ==
    /\ i \in Sessions
    /\ Finish(i, CallDisconnect(sess[i]), 1)
    /\ UNCHANGED nFrames

\* the application calls session.send(channelIndex, message) with a
\* message of byteLength bytes.  RTCDataChannel.send throws unless the
\* data channel is open: the application sends on a channel whose outgoing
\* half is open, on a channel that was closed, or on an index that has no
\* channel.
Send(i, channelIndex, byteLength) ==
    /\ i \in Sessions
    /\ sess[i].nSends < MaxSends
    /\ (channelIndex + 1 \in Chans /\ sess[i].chActive[channelIndex + 1]) =>
          sess[i].dc[channelIndex + 1] = "open"
    /\ LET r == SessionImpl_send(sess[i], socketStatistic, channelIndex,
                                 byteLength)
       IN  FinishWith(i, [sess[i] EXCEPT
                            !.nSends = @ + 1,
                            !.lastSend =
                                [channelIndex |-> channelIndex,
                                 byteLength |-> byteLength,
                                 ret |-> r.ret, handed |-> r.handed,
                                 wasActive |-> sess[i].active]],
                      1, r.statistic)
    /\ UNCHANGED nFrames

\* the ping timer of session i fires: sendPingMessage(), hrtime() being
\* Ms * rtt.now
PingTick(i) ==
    /\ i \in Sessions
    /\ sess[i].pingInterval
    /\ Len(rtt.pings) < MaxSysPings
    /\ LET e == sendPingMessage(
                    [s |-> [sess[i] EXCEPT !.sysThrew = FALSE],
                     rtt |-> rtt, clock |-> clock,
                     statistic |-> socketStatistic], Ms * rtt.now)
       IN  /\ sess' = [sess EXCEPT ![i] = e.s]
           /\ rtt' = [e.rtt EXCEPT
                         !.pings = Append(@, rtt.entrySequence),
                         !.now = @ + 1,
                         !.last = [op |-> "next",
                                   sequence |-> rtt.entrySequence,
                                   found |-> TRUE]]
           /\ clock' = e.clock
           /\ socketStatistic' = e.statistic
    /\ UNCHANGED <<sockPc, sockResult, sockSession, token, addresses,
                   timeout, onConnected, nFrames, budget, nInvalid,
                   trackOrder, signal, pool, sampleSet, payload>>

\* onmessage of the system channel's data channel with an ArrayBuffer:
\* the byte length is added to totalRecvBytes, then onData is emitted, whose
\* handler is handleSystemMessage(data, hrtime())
SysMessage(i, buffer) ==
    /\ i \in Sessions
    /\ sess[i].sysDc = "open"
    /\ sess[i].nSysIn < MaxSysMessages
    /\ budget > 0
    /\ LET e == handleSystemMessage(
                    [s |-> [sess[i] EXCEPT !.nSysIn = @ + 1,
                                           !.sysIn = buffer,
                                           !.sysThrew = FALSE],
                     rtt |-> rtt, clock |-> clock,
                     statistic |-> [socketStatistic EXCEPT
                                       !.webrtc.totalRecvBytes =
                                           @ + Len(buffer)]],
                    buffer, Ms * rtt.now)
       IN  /\ sess' = [sess EXCEPT ![i] = e.s]
           /\ rtt' = [e.rtt EXCEPT
                         !.answered =
                             @ \cup {k \in DOMAIN rtt.pings :
                                        /\ RTTCalculator_entry(
                                               rtt, rtt.pings[k]) # Null
                                        /\ RTTCalculator_entry(
                                               e.rtt, rtt.pings[k]) = Null},
                         !.last = [op |-> "pong", sequence |-> 0,
                                   found |-> e.rtt.sample # rtt.sample]]
           /\ clock' = e.clock
           /\ socketStatistic' = e.statistic
    /\ budget' = budget - 1
    /\ UNCHANGED <<sockPc, sockResult, sockSession, token, addresses,
                   timeout, onConnected, nFrames, nInvalid,
                   trackOrder, signal, pool, sampleSet, payload>>

\* the token lengths handed to connect
TokenLengths ==
    {POMELO_CONNECT_TOKEN_BYTES - 1, POMELO_CONNECT_TOKEN_BYTES,
     POMELO_CONNECT_TOKEN_BYTES + 1}

Next ==
    \/ Connect(POMELO_CONNECT_TOKEN_BYTES)
    \/ Stop
    \/ \E i \in Endpoints : WsOpen(i)
    \/ \E i \in Endpoints : WsRemoteClose(i)
    \/ \E i \in Endpoints : WsCloseEvent(i)
    \/ \E i \in Endpoints : WsMessage(i)
    \/ \E i \in Endpoints : ResumeFrame(i)
    \/ \E i \in Endpoints : DescRemoteSet(i)
    \/ \E i \in Endpoints : DescLocalSet(i)
    \/ \E i \in Endpoints : IceCandidate(i)
    \/ \E i \in Endpoints, c \in Chans : DcOpen(i, c)
    \/ \E i \in Endpoints, c \in Chans : DcRemoteClose(i, c)
    \/ \E i \in Endpoints, c \in Chans : DcCloseEvent(i, c)
    \/ \E i \in Endpoints : OnDataChannelSystem(i)
    \/ \E i \in Endpoints, c \in Chans : OnDataChannelServer(i, c)
    \/ \E i \in Endpoints, c \in Chans : IncRemoteClose(i, c)
    \/ \E i \in Endpoints, c \in Chans : IncCloseEvent(i, c)
    \/ \E i \in Endpoints : SysRemoteClose(i)
    \/ \E i \in Endpoints : SysCloseEvent(i)
    \/ \E i \in Endpoints, c \in Chans : DcMessage(i, c)
    \/ \E i \in Endpoints : PcFailed(i)
    \/ \E i \in Endpoints : PcClosed(i)
    \/ \E i \in Endpoints : ConnectTimeout(i)
    \/ \E i \in Endpoints : Disconnect(i)

Spec == Init /\ [][Next]_vars

SocketSpec == SocketInit /\ [][Next]_vars

\* The client with an application that also sends messages and hands
\* connect tokens of any length.
ClientNext ==
    \/ Next
    \/ \E byteLength \in TokenLengths : Connect(byteLength)
    \/ \E i \in Endpoints, channelIndex \in 0..NumChannels,
          byteLength \in ByteLengths : Send(i, channelIndex, byteLength)

ClientInit == InitWith({1}, MaxClientEvents)

ClientSpec == ClientInit /\ [][ClientNext]_vars

\* A session in the middle of the handshake: the signaling socket opened
\* and AUTH was sent, AUTH|OK|7|5 was handled, and the handler of
\* DESC|offer|sdp is suspended in setRemoteDescription.
HandshakeSession ==
    LET s1 == sendWS([NewSession(0) EXCEPT !.ws = "open"], OPCODE_AUTH)
        s2 == handleWSMessage(s1, Frames[1])
    IN  handleWSMessage(s2, Frames[5])

\* The session from there on, with the traffic of its system channel; the
\* events counted are those that follow.
SysInit ==
    /\ trackOrder = FALSE
    /\ sess = <<HandshakeSession>>
    /\ sockPc = "awaiting"
    /\ sockResult = NoResult
    /\ sockSession = 0
    /\ token = [addresses |-> 1, timeout |-> 0]
    /\ addresses = 1
    /\ timeout = 0
    /\ onConnected = <<>>
    /\ nFrames = MaxFrames
    /\ budget = MaxSysEvents
    /\ socketStatistic = NewStatistic
    /\ nInvalid = 0
    /\ signal = NewSignal
    /\ pool = NewPool
    /\ rtt = NewRTTCalculator
    /\ sampleSet = NewSampleSet
    /\ clock = NewClock
    /\ payload = NewPayload

\* the ping timer fires, for its first ticks
HandshakePing(i) ==
    /\ Len(rtt.pings) < MaxHandshakePings
    /\ PingTick(i)

SysNext ==
    \/ \E i \in Endpoints : DescRemoteSet(i)
    \/ \E i \in Endpoints : DescLocalSet(i)
    \/ \E i \in Endpoints : IceCandidate(i)
    \/ \E i \in Endpoints, c \in Chans : DcOpen(i, c)
    \/ \E i \in Endpoints : OnDataChannelSystem(i)
    \/ \E i \in Endpoints : HandshakePing(i)
    \/ \E i \in Endpoints, buffer \in SysBuffers : SysMessage(i, buffer)
    \/ \E i \in Endpoints : Disconnect(i)
    \/ \E i \in Endpoints : PcFailed(i)
    \/ \E i \in Endpoints : PcClosed(i)
    \/ \E i \in Endpoints : SysRemoteClose(i)
    \/ \E i \in Endpoints : SysCloseEvent(i)
    \/ \E i \in Endpoints : WsRemoteClose(i)
    \/ \E i \in Endpoints : WsCloseEvent(i)

SysSpec == SysInit /\ [][SysNext]_vars

\* A session whose channels have all opened: the signaling socket opened
\* and AUTH was sent, AUTH|OK|7|5 and DESC|offer|sdp were handled and the
\* local description was sent, every client channel opened, and "system"
\* was announced, which sent READY and armed the ping timer.
RECURSIVE OpenChannels(_, _)
OpenChannels(s, c) ==
    IF c > NumChannels THEN s
    ELSE OpenChannels(CountOpened([s EXCEPT !.dc[c] = "open",
                                            !.chOpened[c] = TRUE]), c + 1)

ReadySession ==
    LET s1 == sendWS([NewSession(0) EXCEPT !.ws = "open"], OPCODE_AUTH)
        s2 == handleWSMessage(s1, Frames[1])
        s3 == sendWS([s2 EXCEPT !.remoteSet = TRUE, !.localSet = TRUE],
                     OPCODE_DESCRIPTION)
    IN  AdoptSystemChannel(OpenChannels(s3, 1))

\* The PONGs delivered to it: for the sequences 0, 1 and 2^24, and one cut
\* after the header.
PongBuffers ==
    {PeerPong(ToU64(0), 1, ToU64(Ms), 1),
     PeerPong(ToU64(1), 1, ToU64(Ms), 1),
     PeerPong(Pow256(3), 4, ToU64(Ms), 1),
     <<SYS_OPCODE_PONG * 64>>}

\* Its pings and the PONGs that come back, until the application
\* disconnects.
PongInit ==
    /\ trackOrder = FALSE
    /\ sess = <<ReadySession>>
    /\ sockPc = "awaiting"
    /\ sockResult = NoResult
    /\ sockSession = 0
    /\ token = [addresses |-> 1, timeout |-> 0]
    /\ addresses = 1
    /\ timeout = 0
    /\ onConnected = <<>>
    /\ nFrames = MaxFrames
    /\ budget = MaxSysEvents
    /\ socketStatistic = NewStatistic
    /\ nInvalid = 0
    /\ signal = NewSignal
    /\ pool = NewPool
    /\ rtt = NewRTTCalculator
    /\ sampleSet = NewSampleSet
    /\ clock = NewClock
    /\ payload = NewPayload

PongNext ==
    \/ \E i \in Endpoints : PingTick(i)
    \/ \E i \in Endpoints, buffer \in PongBuffers : SysMessage(i, buffer)
    \/ \E i \in Endpoints : Disconnect(i)

PongSpec == PongInit /\ [][PongNext]_vars

\* The same client, the order of the frames' effects being recorded.
FrameInit ==
    /\ trackOrder = TRUE
    /\ sess = <<>>
    /\ sockPc = "idle"
    /\ sockResult = NoResult
    /\ sockSession = 0
    /\ token \in [addresses : {1}, timeout : {0, 10}]
    /\ addresses = 0
    /\ timeout = 0
    /\ onConnected = <<>>
    /\ nFrames = 0
    /\ budget = MaxEvents
    /\ socketStatistic = NewStatistic
    /\ nInvalid = 0
    /\ signal = NewSignal
    /\ pool = NewPool
    /\ rtt = NewRTTCalculator
    /\ sampleSet = NewSampleSet
    /\ clock = NewClock
    /\ payload = NewPayload

FrameSpec == FrameInit /\ [][Next]_vars

\* ------------------------------------------------------- Signal on its own
SignalInit ==
    /\ InitWith({1}, 0)
    /\ token.timeout = 0

\* signal.connect(callback)
SigConnect(callback) ==
    /\ Len(signal.conn) < MaxConns
    /\ signal' = Signal_connect(signal, callback)
    /\ UNCHANGED <<sessVars, pool, rtt, sampleSet, clock, payload>>

\* signal.once(cb)
SigOnce(cb) ==
    /\ Len(signal.conn) < MaxConns
    /\ signal' = Signal_once(signal, cb)
    /\ UNCHANGED <<sessVars, pool, rtt, sampleSet, clock, payload>>

\* signal.once(): the promise executor links a one-shot whose callback is
\* the promise's resolve
SigOncePromise ==
    /\ Len(signal.conn) < MaxConns
    /\ signal' = Signal_once(signal, Resolve)
    /\ UNCHANGED <<sessVars, pool, rtt, sampleSet, clock, payload>>

\* connection.disconnect(), called between emits
SigDisconnect(c) ==
    /\ c <= Len(signal.conn)
    /\ signal' = SignalConnection_disconnect(signal, c)
    /\ UNCHANGED <<sessVars, pool, rtt, sampleSet, clock, payload>>

\* signal.emit(...args)
SigEmit ==
    /\ signal.emits < MaxEmits
    /\ signal' = Signal_emit(signal)
    /\ UNCHANGED <<sessVars, pool, rtt, sampleSet, clock, payload>>

SignalNext ==
    \/ \E callback \in Callbacks : SigConnect(callback)
    \/ \E cb \in Callbacks : SigOnce(cb)
    \/ SigOncePromise
    \/ \E c \in Conns : SigDisconnect(c)
    \/ SigEmit

SignalSpec == SignalInit /\ [][SignalNext]_vars

\* The Signal with handlers that emit it from inside a call.
NestedNext ==
    \/ SignalNext
    \/ \E callback \in {Emitter} : SigConnect(callback)
    \/ \E cb \in {Emitter} : SigOnce(cb)

NestedSpec == SignalInit /\ [][NestedNext]_vars

\* --------------------------------------------------------- Pool on its own
PoolInit == SignalInit

\* pool.acquire()
PoolAcquire ==
    /\ pool.ops < MaxPoolOps
    /\ pool' = Pool_acquire(pool)
    /\ UNCHANGED <<sessVars, signal, rtt, sampleSet, clock, payload>>

\* pool.release(element)
PoolRelease(element) ==
    /\ pool.ops < MaxPoolOps
    /\ pool' = Pool_release(pool, element)
    /\ UNCHANGED <<sessVars, signal, rtt, sampleSet, clock, payload>>

PoolNext ==
    \/ PoolAcquire
    \/ \E element \in Items : PoolRelease(element)

PoolSpec == PoolInit /\ [][PoolNext]_vars

\* ---------------------------------------------------- SampleSet on its own
SampleInit == SignalInit

\* sampleSet.submit(value)
SampleSubmit(value) ==
    /\ Len(sampleSet.submitted) < MaxSubmits
    /\ sampleSet' = SampleSet_submit(sampleSet, value)
    /\ UNCHANGED <<sessVars, signal, pool, rtt, clock, payload>>

\* sampleSet.calc()
SampleCalc ==
    /\ ~sampleSet.result.valid
    /\ sampleSet' =
          [sampleSet EXCEPT !.result =
              [valid |-> TRUE,
               mean |-> SampleSet_calc(sampleSet).mean,
               variance |-> SampleSet_calc(sampleSet).variance]]
    /\ UNCHANGED <<sessVars, signal, pool, rtt, clock, payload>>

SampleNext ==
    \/ \E value \in Samples : SampleSubmit(value)
    \/ SampleCalc

SampleSpec == SampleInit /\ [][SampleNext]_vars

\* -------------------------------------------------------- Clock on its own
\* no socket and no session
SessIdle ==
    /\ trackOrder = FALSE
    /\ sess = <<>>
    /\ sockPc = "idle"
    /\ sockResult = NoResult
    /\ sockSession = 0
    /\ token = [addresses |-> 1, timeout |-> 0]
    /\ addresses = 0
    /\ timeout = 0
    /\ onConnected = <<>>
    /\ nFrames = 0
    /\ budget = 0
    /\ socketStatistic = NewStatistic
    /\ nInvalid = 0

ClockInit ==
    /\ SessIdle
    /\ signal = NewSignal
    /\ pool = NewPool
    /\ rtt = NewRTTCalculator
    /\ sampleSet = NewSampleSet
    /\ payload = NewPayload
    /\ \E n \in ClockStarts : clock = ClockAfter(n)

\* handlePongMessage: clock.sync(sendTime, socketTime, socketTime,
\* recvTime) for a ping sent at 0 whose pong arrives 2 ms later and
\* carries the socket time 1 ms + offset, while rtt.variance is rttVar
ClockSync(rttVar, offset) ==
    /\ clock.steps < MaxSyncs
    /\ clock' = Clock_sync(clock, rttVar,
                           0, Ms + offset, Ms + offset, 2 * Ms)
    /\ UNCHANGED <<sessVars, signal, pool, rtt, sampleSet, payload>>

ClockNext ==
    \E rttVar \in RttVariances, offset \in SampleOffsets :
        ClockSync(rttVar, offset)

ClockSpec == ClockInit /\ [][ClockNext]_vars

\* ------------------------------------------------------ Payload on its own
PayloadInit ==
    /\ SessIdle
    /\ signal = NewSignal
    /\ pool = NewPool
    /\ rtt = NewRTTCalculator
    /\ sampleSet = NewSampleSet
    /\ clock = NewClock
    /\ payload = NewPayload

\* payload.prepare(buffer), as the handlers of incoming messages do
PayloadPrepare(data) ==
    /\ payload.ops < MaxPayloadOps
    /\ payload' = Payload_prepare(payload, data)
    /\ UNCHANGED <<sessVars, signal, pool, rtt, sampleSet, clock>>

\* payload.prepare(capacity), as Message.prepare does
PayloadPrepareCapacity ==
    /\ payload.ops < MaxPayloadOps
    /\ payload' = Payload_prepareCapacity(payload, PackedCapacity)
    /\ UNCHANGED <<sessVars, signal, pool, rtt, sampleSet, clock>>

\* payload.reset()
PayloadReset ==
    /\ payload.ops < MaxPayloadOps
    /\ payload' = Payload_reset(payload)
    /\ UNCHANGED <<sessVars, signal, pool, rtt, sampleSet, clock>>

\* Payload.calcPackedUint64Bytes(value)
PayloadCalc(value) ==
    /\ payload.ops < MaxPayloadOps
    /\ payload' = [Called(payload, "calcPackedUint64Bytes") EXCEPT
                      !.arg = value,
                      !.bytes = calcPackedUint64Bytes(value)]
    /\ UNCHANGED <<sessVars, signal, pool, rtt, sampleSet, clock>>

\* sendPingMessage: writePackedUint64(calcPackedUint64Bytes(value), value)
PayloadWritePacked(value) ==
    /\ payload.ops < MaxPayloadOps
    /\ payload' = Payload_writePackedUint64(
                      payload, calcPackedUint64Bytes(value), value)
    /\ UNCHANGED <<sessVars, signal, pool, rtt, sampleSet, clock>>

\* handlePingMessage: readPackedUint64(bytes), bytes taken from the header
PayloadReadPacked(bytes) ==
    /\ payload.ops < MaxPayloadOps
    /\ payload' = Payload_readPackedUint64(payload, bytes)
    /\ UNCHANGED <<sessVars, signal, pool, rtt, sampleSet, clock>>

\* payload.readUint8()
PayloadReadUint8 ==
    /\ payload.ops < MaxPayloadOps
    /\ payload' = Payload_readUint8(Called(payload, "readUint8"))
    /\ UNCHANGED <<sessVars, signal, pool, rtt, sampleSet, clock>>

\* payload.readString()
PayloadReadString ==
    /\ payload.ops < MaxPayloadOps
    /\ payload' = Payload_readString(payload)
    /\ UNCHANGED <<sessVars, signal, pool, rtt, sampleSet, clock>>

PayloadNext ==
    \/ \E data \in Buffers : PayloadPrepare(data)
    \/ PayloadPrepareCapacity
    \/ PayloadReset
    \/ \E value \in U64Values : PayloadCalc(value)
    \/ \E value \in U64Values : PayloadWritePacked(value)
    \/ \E bytes \in 1..8 : PayloadReadPacked(bytes)
    \/ PayloadReadUint8
    \/ PayloadReadString

PayloadSpec == PayloadInit /\ [][PayloadNext]_vars

\* ------------------------------------------------ RTTCalculator on its own
RttInit ==
    /\ trackOrder = FALSE
    /\ sess = <<>>
    /\ sockPc = "idle"
    /\ sockResult = NoResult
    /\ sockSession = 0
    /\ token = [addresses |-> 1, timeout |-> 0]
    /\ addresses = 0
    /\ timeout = 0
    /\ onConnected = <<>>
    /\ nFrames = 0
    /\ budget = 0
    /\ socketStatistic = NewStatistic
    /\ nInvalid = 0
    /\ signal = NewSignal
    /\ pool = NewPool
    /\ sampleSet = NewSampleSet
    /\ clock = NewClock
    /\ payload = NewPayload
    /\ \E issued \in RttStarts : rtt = RTTCalculatorAfter(issued)

\* sendPingMessage: rttCalc.next(hrtime())
RttNext ==
    /\ Len(rtt.pings) < MaxPings
    /\ rtt' = [RTTCalculator_next(rtt, rtt.now) EXCEPT
                  !.pings = Append(@, rtt.entrySequence),
                  !.now = @ + 1,
                  !.last = [op |-> "next", sequence |-> rtt.entrySequence,
                            found |-> TRUE]]
    /\ UNCHANGED <<sessVars, signal, pool, sampleSet, clock, payload>>

\* handlePongMessage for a pong that carries `sequence` (one that was
\* issued, or the one to be issued next) and arrives d after its ping
RttPong(d) ==
    \E sequence \in {rtt.pings[k] : k \in DOMAIN rtt.pings}
                        \cup {rtt.entrySequence} :
        LET slot == RTTCalculator_entry(rtt, sequence)
            recvTime == IF slot = Null THEN rtt.now
                        ELSE rtt.entries[slot + 1].time + d
        IN  /\ slot # Null => Cardinality(rtt.answered) < MaxPongs
            /\ slot = Null => d = 1
            /\ rtt' = [PongLookupSubmit(rtt, sequence, recvTime) EXCEPT
                          !.answered =
                              IF slot = Null THEN @
                              ELSE @ \cup {k \in DOMAIN rtt.pings :
                                              rtt.pings[k] = sequence},
                          !.last = [op |-> "pong", sequence |-> sequence,
                                    found |-> slot # Null]]
            /\ UNCHANGED <<sessVars, signal, pool, sampleSet, clock, payload>>

RttNextStep ==
    \/ RttNext
    \/ \E d \in 1..MaxRtt : RttPong(d)

RttSpec == RttInit /\ [][RttNextStep]_vars

\* ----------------------------------------------------------------- claims

\* C1: whatever closes a session and however often, onClosed is emitted
\* exactly once (never while the session is active, and once when it is
\* not); a disconnect() returns true exactly when the session was active,
\* so at most one call ever returns true.
C1_CloseIdempotent ==
    \A i \in Sessions :
        /\ sess[i].onClosedEmits = IF sess[i].active THEN 0 ELSE 1
        /\ ~sess[i].discWrong
        /\ sess[i].discTrue <= 1

\* a session closed by disconnect(), then disconnected again
C1_Witness ==
    \E i \in Sessions :
        /\ sess[i].discTrue = 1
        /\ sess[i].discAgain
        /\ sess[i].onClosedEmits = 1

\* C2: endpoints are tried in order and one at a time: every session
\* before the last one has resolved its first onConnectResult with a
\* failure; a session whose first result is SUCCESS is the last one
\* constructed, connect has returned SUCCESS and onConnected was called
\* once, for that session; onConnected is never called otherwise.
C2_FirstSuccessWins ==
    /\ Len(sess) <= addresses
    /\ \A i \in Sessions :
          /\ i < Len(sess) => sess[i].resolved \in {DENIED, TIMED_OUT}
          /\ sess[i].resolved = SUCCESS =>
                /\ i = Len(sess)
                /\ sockPc = "returned"
                /\ sockResult = SUCCESS
                /\ onConnected = <<i>>
    /\ onConnected # <<>> =>
          /\ Len(onConnected) = 1
          /\ sess[onConnected[1]].resolved = SUCCESS

\* endpoints 1..3 answered DENIED, TIMED_OUT, SUCCESS
C2_Witness ==
    /\ Len(sess) = 3
    /\ sess[1].resolved = DENIED
    /\ sess[2].resolved = TIMED_OUT
    /\ sess[3].resolved = SUCCESS
    /\ sockResult = SUCCESS
    /\ onConnected = <<3>>

C4_NeverWaitsOnClosedSession ==
    \A i \in Sessions :
        ~ /\ sockPc = "awaiting"
          /\ i = Len(sess)
          /\ ~sess[i].active
          /\ sess[i].nResults = 0
          /\ sess[i].connectTimeout # "armed"
          /\ sess[i].inflight = <<>>

\* C5: a session emits onConnectResult at most once.
C5_SingleConnectResult ==
    \A i \in Sessions : sess[i].nResults <= 1

\* C6: a session closed by an explicit disconnect() emits no
\* onConnectResult after that close.
C6_NoResultAfterCancel ==
    \A i \in Sessions : sess[i].cancelled => ~sess[i].lateResult

\* C7: once a session is closed, neither the connect-timeout timer nor the
\* ping timer is armed.
C7_NoTimerAfterClose ==
    \A i \in Sessions :
        ~sess[i].active =>
            sess[i].connectTimeout # "armed" /\ ~sess[i].pingInterval

\* C8: connected implies both ready flags.
C8_ConnectedImpliesReady ==
    \A i \in Sessions :
        sess[i].connected =>
            sess[i].allChannelsOpened /\ sess[i].readySignalReceived

\* C9: no onConnectResult and no onMessage is emitted while active is
\* false, and onClosed is emitted at most once.
C9_SilentAfterDeactivation ==
    \A i \in Sessions :
        /\ ~sess[i].lateResult
        /\ ~sess[i].lateMessage
        /\ sess[i].onClosedEmits <= 1

\* C10: the id, once assigned, never changes, and a step assigns it only
\* if it also seeds the clock (the AUTH|OK frame was well formed).
C10_IdAssignedOnce ==
    [][\A i \in Sessions :
          /\ sess[i].id # -1 => sess'[i].id = sess[i].id
          /\ sess'[i].id # sess[i].id => sess'[i].clockSeeded]_vars

\* C11: a session that emitted DENIED for an AUTH frame whose result is
\* not OK is closed: active is false, the signaling socket, the peer
\* connection and every channel are closed, and onClosed was emitted.
C11_DeniedCloses ==
    \A i \in Sessions :
        sess[i].nDenied > 0 =>
            /\ ~sess[i].active
            /\ sess[i].ws \notin {"connecting", "open"}
            /\ sess[i].pc = "closed"
            /\ \A c \in Chans : ~sess[i].chActive[c]
            /\ sess[i].onClosedEmits = 1

\* C12: once both ready flags are set the connect timeout is not armed
\* and no later step fires it or emits TIMED_OUT; a step in which the
\* timer fires closes the session and emits TIMED_OUT once.
C12_TimeoutCancelledWhenReady ==
    [][\A i \in Sessions :
          LET s == sess[i]
              t == sess'[i]
          IN  /\ (t.allChannelsOpened /\ t.readySignalReceived) =>
                    t.connectTimeout # "armed"
              /\ (s.allChannelsOpened /\ s.readySignalReceived) =>
                    /\ t.connectTimeout = s.connectTimeout
                    /\ t.nTimedOut = s.nTimedOut
              /\ (s.connectTimeout = "armed" /\ t.connectTimeout = "fired") =>
                    /\ ~t.active
                    /\ t.onClosedEmits = 1
                    /\ t.nTimedOut = s.nTimedOut + 1
              /\ t.nTimedOut # s.nTimedOut =>
                    s.connectTimeout = "armed" /\ t.connectTimeout = "fired"]_vars

\* a session created with a positive timeout whose two ready flags are
\* set: its timer was cancelled and it is still active
C12_Witness ==
    \E i \in Sessions :
        /\ timeout > 0
        /\ sess[i].allChannelsOpened
        /\ sess[i].readySignalReceived
        /\ sess[i].connectTimeout = "null"
        /\ sess[i].nTimedOut = 0
        /\ sess[i].active

\* the connections whose callback the last emit called
Invoked == {signal.log[k] : k \in DOMAIN signal.log}

\* C13: when no handler changes the list during an emit, the emit calls
\* the callbacks of the connections that were linked when it started, all
\* of them and in the order in which they were connected, whatever mix of
\* connect(cb), once(cb), once() and earlier disconnects built the list.
C13_EmitInConnectionOrder ==
    /\ \A j, k \in DOMAIN signal.start :
          j < k => signal.start[j] < signal.start[k]
    /\ (signal.dropped = {} /\ signal.added = {}) =>
          signal.log = signal.start

\* C14: a connection registered by a handler during an emit is not called
\* in that emit.
C14_NotInvokedInSameEmit ==
    \A c \in signal.added : c \notin Invoked /\ signal.conn[c].calls = 0

\* C15: every connection that was linked when the emit started and that no
\* handler disconnected during the emit is called exactly once in it.
C15_NoHandlerSkipped ==
    \A k \in DOMAIN signal.start :
        signal.start[k] \notin signal.dropped =>
            Cardinality({j \in DOMAIN signal.log :
                            signal.log[j] = signal.start[k]}) = 1

\* C16: the top index of a pool of capacity cap stays within -1 .. cap - 1
\* (the pool holds at most cap elements) and the array keeps its length.
C16_PoolTopInRange ==
    /\ -1 <= pool.index
    /\ pool.index < PoolCap
    /\ Len(pool.elements) = PoolCap

\* C17: a release on a pool that holds cap elements calls destroy and
\* leaves the elements and the top index as they were; an acquire on an
\* empty pool calls create; any other acquire calls no create, returns
\* the element on top (the most recently released one still held) and
\* lowers the top index by one.
C17_PoolReleaseAcquire ==
    [][pool'.ops = pool.ops + 1 =>
          /\ (pool'.op = "release" /\ pool.index + 1 >= PoolCap) =>
                /\ pool'.destroyed
                /\ pool'.elements = pool.elements
                /\ pool'.index = pool.index
          /\ (pool'.op = "acquire" /\ pool.index < 0) =>
                pool'.created /\ pool'.index = pool.index
          /\ (pool'.op = "acquire" /\ pool.index >= 0) =>
                /\ ~pool'.created
                /\ pool'.ret = pool.elements[pool.index + 1]
                /\ pool'.ret \in Items
                /\ pool'.index = pool.index - 1]_vars

RECURSIVE SeqSum(_)
SeqSum(q) == IF q = <<>> THEN 0 ELSE Head(q) + SeqSum(Tail(q))

SeqSquares(q) == [k \in DOMAIN q |-> q[k] * q[k]]

\* how many times v occurs in q
Occurrences(q, v) == Cardinality({k \in DOMAIN q : q[k] = v})

\* the last n elements of q
LastN(q, n) == SubSeq(q, Len(q) - n + 1, Len(q))

\* C19: once a value was submitted, sum is the sum of the stored values
\* and sumSquared the sum of their squares; when every value submitted so
\* far is the same v (one submission, N submissions, any number), calc()
\* returns mean v and variance 0.
C19_SumsMatchWindow ==
    sampleSet.submitted # <<>> =>
        /\ sampleSet.initialized
        /\ sampleSet.sum = SeqSum(sampleSet.values)
        /\ sampleSet.sumSquared = SeqSum(SeqSquares(sampleSet.values))
        /\ (/\ sampleSet.result.valid
            /\ \A k \in DOMAIN sampleSet.submitted :
                   sampleSet.submitted[k] = sampleSet.submitted[1]) =>
                /\ sampleSet.result.mean = sampleSet.submitted[1]
                /\ sampleSet.result.variance = 0

\* N submissions of the same negative value, then calc()
C19_Witness ==
    /\ Len(sampleSet.submitted) = SampleSize
    /\ \A k \in DOMAIN sampleSet.submitted : sampleSet.submitted[k] = -2
    /\ sampleSet.result.valid
    /\ sampleSet.result.mean = -2

\* C20: after N or more submissions the stored values are, as a multiset,
\* the last N submitted values, and calc() returns as mean their sum
\* divided by N, truncated.
C20_WindowIsLastN ==
    Len(sampleSet.submitted) >= SampleSize =>
        LET last == LastN(sampleSet.submitted, SampleSize)
        IN  /\ \A v \in Samples :
                  Occurrences(sampleSet.values, v) = Occurrences(last, v)
            /\ sampleSet.result.valid =>
                  sampleSet.result.mean = BigIntDiv(SeqSum(last), SampleSize)

\* N + 1 submissions of values that differ, the first one no longer in
\* the window, then calc()
C20_Witness ==
    /\ Len(sampleSet.submitted) = SampleSize + 1
    /\ sampleSet.submitted[1] = 2
    /\ \A k \in 2..Len(sampleSet.submitted) : sampleSet.submitted[k] < 2
    /\ sampleSet.submitted[2] # sampleSet.submitted[3]
    /\ sampleSet.result.valid
    /\ sampleSet.result.mean < 0

\* C18: (a) right after next() returned a sequence, entry(sequence) is
\* the slot next() wrote; (b) once the pong of a sequence was submitted,
\* entry(sequence) is null; (c) once a later next() reused the slot of a
\* sequence, entry(sequence) is null; (d) a valid slot i holds a sequence
\* with sequence mod 20 = i.
C18_RttEntryLifetime ==
    /\ rtt.last.op = "next" =>
          LET slot == RTTCalculator_entry(rtt, rtt.last.sequence)
          IN  /\ slot = rtt.last.sequence % POMELO_RTT_ENTRY_BUFFER_SIZE
              /\ rtt.entries[slot + 1].time = rtt.now - 1
    /\ \A k \in rtt.answered :
          RTTCalculator_entry(rtt, rtt.pings[k]) = Null
    /\ \A j, k \in DOMAIN rtt.pings :
          (j < k /\ rtt.pings[j] % POMELO_RTT_ENTRY_BUFFER_SIZE
                      = rtt.pings[k] % POMELO_RTT_ENTRY_BUFFER_SIZE) =>
              RTTCalculator_entry(rtt, rtt.pings[j]) = Null
    /\ \A i \in 0..(POMELO_RTT_ENTRY_BUFFER_SIZE - 1) :
          rtt.entries[i + 1].valid =>
              rtt.entries[i + 1].sequence % POMELO_RTT_ENTRY_BUFFER_SIZE = i

\* a calculator that went through the wrap from 0xFFFF to 0: a pong was
\* submitted, and next() has just reused the still valid slot of an
\* unanswered ping
C18_Witness ==
    /\ rtt.last.op = "next"
    /\ rtt.answered # {}
    /\ rtt.pings # <<>>
    /\ rtt.pings[1] > rtt.last.sequence
    /\ \E j \in DOMAIN rtt.pings :
          /\ j < Len(rtt.pings)
          /\ j \notin rtt.answered
          /\ rtt.pings[j] % POMELO_RTT_ENTRY_BUFFER_SIZE
                = rtt.last.sequence % POMELO_RTT_ENTRY_BUFFER_SIZE

\* C21: the clock leaves level HIGH only in a sync call that at least 20
\* non-rejected sync calls precede; and when every sync call so far found
\* the same RTT variance, below (5 ms)^2, the clock is at HIGH after each
\* of the first 20 calls and at MEDIUM after the 21st.
C21_DowngradeAfterTwentyPings ==
    LET calm == /\ Cardinality(clock.seen) = 1
                /\ \A v \in clock.seen :
                      v < POMELO_TIME_HIGH_THRESHOLD_RTT_VAR
    IN  /\ clock.level # "HIGH" =>
              clock.nonRejected - 1 >= POMELO_TIME_HIGH_MIN_TIMES_OF_PING
        /\ (calm /\ clock.syncs <= POMELO_TIME_HIGH_MIN_TIMES_OF_PING) =>
              clock.level = "HIGH"
        /\ (calm /\ clock.syncs = POMELO_TIME_HIGH_MIN_TIMES_OF_PING + 1) =>
              clock.level = "MEDIUM"

\* the 21st sync call under a constant RTT variance of 0 has just moved
\* the clock to MEDIUM
C21_Witness ==
    /\ clock.syncs = POMELO_TIME_HIGH_MIN_TIMES_OF_PING + 1
    /\ clock.seen = {0}
    /\ clock.before = "HIGH"
    /\ clock.level = "MEDIUM"

\* C22: a sync call that returns false leaves the offset as it was; one
\* that returns true has set the offset to the sample offset (at HIGH and
\* MEDIUM, where the new offset differs from the old one) or to the mean
\* of the recent offsets (at LOW); so the offset changes only in calls
\* that return true.
C22_SyncTrueIffUpdated ==
    [][clock'.syncs = clock.syncs + 1 =>
          /\ ~clock'.ret => clock'.offset = clock.offset
          /\ (clock'.ret /\ clock.level # "LOW") =>
                /\ clock'.offset = clock'.sample
                /\ clock'.offset # clock.offset
          /\ (clock'.ret /\ clock.level = "LOW") =>
                clock'.offset = SampleSet_calc(clock'.recentOffsets).mean
          /\ clock'.rejected => ~clock'.ret]_vars

\* a sync call at LOW returned true and set the offset to the mean of the
\* recent offsets, which is not the sample offset
C22_Witness ==
    /\ clock.before = "LOW"
    /\ clock.ret
    /\ clock.offset # clock.sample
    /\ clock.offset # 0

\* C23: a readPackedUint64(calcPackedUint64Bytes(v)) made at the position
\* where writePackedUint64(calcPackedUint64Bytes(v), v) wrote v returns v.
C23_PackedRoundTrip ==
    (/\ payload.op = "readPackedUint64"
     /\ ~payload.threw
     /\ payload.wrote.valid
     /\ payload.before = payload.wrote.at
     /\ payload.bytes = calcPackedUint64Bytes(payload.wrote.value)) =>
        payload.ret = payload.wrote.value

\* 1 plus the index of the highest non-zero octet of value, 1 for 0
MinimalBytes(value) ==
    IF Truthy(value)
    THEN CHOOSE n \in 1..8 :
            value[n] # 0 /\ \A j \in (n + 1)..8 : value[j] = 0
    ELSE 1

\* a <= b for two uint64 values
LessEq64(a, b) ==
    \/ a = b
    \/ \E k \in 1..8 : a[k] < b[k] /\ \A j \in (k + 1)..8 : a[j] = b[j]

\* C24: calcPackedUint64Bytes(v) is 1 plus the index of the highest
\* non-zero octet of v (1 for v = 0), and is not below the result for any
\* smaller value.
C24_MinimalByteCount ==
    payload.op = "calcPackedUint64Bytes" =>
        /\ payload.bytes = MinimalBytes(payload.arg)
        /\ \A w \in U64Values :
              LessEq64(w, payload.arg) =>
                  calcPackedUint64Bytes(w) <= payload.bytes

\* C28: readString called at cursor p returns the bytes from p up to the
\* first 0x00 at or after p and leaves the cursor just past that 0x00;
\* with no 0x00 at or after p it returns "" and leaves the cursor at p.
C28_ReadStringCursor ==
    payload.op = "readString" =>
        LET p == payload.before
            zeros == {i \in p..(Len(payload.data) - 1) :
                         payload.data[i + 1] = 0}
        IN  IF zeros = {}
            THEN payload.ret = <<>> /\ payload.position = p
            ELSE LET z == CHOOSE i \in zeros : \A j \in zeros : i <= j
                 IN  /\ payload.ret = SubSeq(payload.data, p + 1, z)
                     /\ payload.position = z + 1

\* C25: every channel has emitted onClosed once if it is closed and never
\* if it is not; it is closed once a close event of its outgoing or of its
\* incoming half was delivered or the session closed it, so the close
\* events and close() calls that follow the first emit nothing.
C25_ChannelClosedOnce ==
    \A i \in Sessions :
        /\ \A c \in Chans :
              /\ sess[i].chClosedEmits[c] =
                    IF sess[i].chActive[c] THEN 0 ELSE 1
              /\ (\/ sess[i].dc[c] = "closed"
                  \/ sess[i].inc[c] = "closed"
                  \/ ~sess[i].active) => sess[i].chClosedEmits[c] = 1
        /\ sess[i].sysClosedEmits =
              IF sess[i].sysDc = "none" \/ sess[i].sysActive THEN 0 ELSE 1
        /\ sess[i].sysDc = "closed" => sess[i].sysClosedEmits = 1

\* the session closed a channel, then the close events of both of its
\* halves were delivered: one emission
C25_Witness ==
    \E i \in Sessions : \E c \in Chans :
        /\ sess[i].dc[c] = "closed"
        /\ sess[i].inc[c] = "closed"
        /\ sess[i].discTrue = 1
        /\ sess[i].chClosedEmits[c] = 1

C27_InvalidTokenRejected ==
    [][nInvalid' = nInvalid + 1 =>
          UNCHANGED <<sess, sockSession, socketStatistic, addresses, timeout,
                      sockPc, sockResult, onConnected>>]_vars

\* connect threw on a socket that has a current session
C27_Witness ==
    /\ nInvalid = 1
    /\ sockSession # 0
    /\ sockPc = "returned"
    /\ sess[sockSession].active

\* C29: the session has sent READY once and armed the ping timer once if
\* every client channel has opened and the system channel was adopted,
\* and neither otherwise; the opened-channel count is the number of
\* client channels that opened plus one for the adopted system channel,
\* however many times "system" was announced.
C29_ReadyOnceWhenAllOpened ==
    \A i \in Sessions :
        LET all == /\ \A c \in Chans : sess[i].chOpened[c]
                   /\ sess[i].sysDc # "none"
        IN  /\ sess[i].sent[OPCODE_READY] = IF all THEN 1 ELSE 0
            /\ sess[i].nPingArmed = sess[i].sent[OPCODE_READY]
            /\ sess[i].allChannelsOpened = all
            /\ sess[i].openedChannels =
                  Cardinality({c \in Chans : sess[i].chOpened[c]})
                    + (IF sess[i].sysDc # "none" THEN 1 ELSE 0)

\* all channels opened, READY sent, and "system" announced a second time
C29_Witness ==
    \E i \in Sessions :
        /\ sess[i].sysDuplicate
        /\ sess[i].sent[OPCODE_READY] = 1
        /\ sess[i].nPingArmed = 1
        /\ sess[i].pingInterval

\* C30: a session that has emitted onConnectResult(SUCCESS) has received
\* a well-formed AUTH|OK frame (its id is assigned and its clock seeded),
\* and was active when it emitted.
C30_SuccessOnlyAfterAuth ==
    \A i \in Sessions :
        sess[i].nSuccess > 0 =>
            /\ sess[i].id # -1
            /\ sess[i].clockSeeded
            /\ ~sess[i].lateSuccess

\* C37: a sync call leaves the level where it is or moves it one step
\* along HIGH, MEDIUM, LOW, never back; a call whose sample is rejected
\* because the RTT variance is above the cap of the level leaves the
\* level, the high-sync count and the offset as they were and records the
\* sample in recentOffsets.
C37_LevelOnlyDowngrades ==
    [][clock'.syncs = clock.syncs + 1 =>
          /\ \/ clock'.level = clock.level
             \/ clock.level = "HIGH" /\ clock'.level = "MEDIUM"
             \/ clock.level = "MEDIUM" /\ clock'.level = "LOW"
          /\ clock'.rejected =>
                /\ clock'.level = clock.level
                /\ clock'.highSyncCount = clock.highSyncCount
                /\ clock'.offset = clock.offset
                /\ clock'.recentOffsets =
                      SampleSet_submit(clock.recentOffsets, clock'.sample)]_vars

\* the clock went from HIGH through MEDIUM to LOW, then a sample was
\* rejected at LOW
C37_Witness ==
    /\ clock.level = "LOW"
    /\ clock.before = "LOW"
    /\ clock.rejected
    /\ clock.highSyncCount = POMELO_TIME_HIGH_MIN_TIMES_OF_PING

\* C40: calc() never returns a negative variance, whatever values were
\* submitted: not for the sample set as it is now, and not in the result
\* it returned last.
C40_VarianceNotNegative ==
    /\ SampleSet_calc(sampleSet).variance >= 0
    /\ sampleSet.result.valid => sampleSet.result.variance >= 0

\* calc() on a window that holds a negative and a positive value and whose
\* sum is negative and not a multiple of N, so that the mean is truncated
C40_Witness ==
    /\ sampleSet.result.valid
    /\ \E k \in DOMAIN sampleSet.values : sampleSet.values[k] < 0
    /\ \E k \in DOMAIN sampleSet.values : sampleSet.values[k] > 0
    /\ sampleSet.sum < 0
    /\ sampleSet.sum % sampleSet.size # 0
    /\ sampleSet.result.variance > 0

\* C38: the entry of a ping whose pong was not submitted is found by
\* entry(sequence) as long as fewer than 20 calls of next() followed the
\* one that issued it, across the wrap from 0xFFFF to 0 too.
C38_EntryKeptForTwentyPings ==
    \A j \in DOMAIN rtt.pings :
        (/\ j \notin rtt.answered
         /\ Len(rtt.pings) - j < POMELO_RTT_ENTRY_BUFFER_SIZE) =>
            RTTCalculator_entry(rtt, rtt.pings[j]) # Null

\* C39: after every call the cursor is within 0..capacity, and a call that
\* throws the overflow or underflow error leaves the cursor and the bytes
\* of the buffer as they were.
C39_CursorWithinCapacity ==
    [][payload'.ops = payload.ops + 1 =>
          /\ 0 <= payload'.position
          /\ payload'.position <= payload'.capacity
          /\ payload'.threw =>
                /\ payload'.position = payload.position
                /\ payload'.data = payload.data]_vars

\* C36: the callback of a one-shot connection has been called at most
\* once, whatever emits were made, emits from inside a handler included.
C36_OneShotAtMostOnce ==
    \A c \in DOMAIN signal.conn :
        signal.conn[c].once => signal.conn[c].calls <= 1

\* C34: listener.onDisconnected was called at most once for every session,
\* and only for a session for which listener.onConnected was called; a
\* session that was denied or timed out has caused no onDisconnected.
C34_DisconnectedOnlyAfterConnected ==
    \A i \in Sessions :
        /\ sess[i].onClosedEmits <= 1
        /\ sess[i].onClosedEmits > 0 =>
              \E k \in DOMAIN onConnected : onConnected[k] = i

\* C33: within a session the frames take effect in the order of their
\* arrival: no frame changes the session or sends something after a frame
\* that arrived later has done so.
C33_FramesTakeEffectInOrder ==
    \A i \in Sessions : ~sess[i].disorder

\* C31: every well-formed PING delivered on the system channel is answered
\* by exactly one packet, whose opcode is PONG, whose header announces the
\* fewest octets that hold the sequence of the PING and whose body is that
\* sequence in those octets; the RTT calculator and the clock stay as they
\* were.
C31_PingAnsweredByOnePong ==
    [][\A i \in DOMAIN sess :
          (/\ i \in DOMAIN sess'
           /\ sess'[i].nSysIn = sess[i].nSysIn + 1
           /\ Len(sess'[i].sysIn) >= 1
           /\ sess'[i].sysIn[1] \div 64 = SYS_OPCODE_PING
           /\ Len(sess'[i].sysIn) >= 2 + ((sess'[i].sysIn[1] \div 8) % 8)) =>
              LET buffer == sess'[i].sysIn
                  w == ((buffer[1] \div 8) % 8) + 1
                  sequence == [j \in 1..8 |-> IF j <= w THEN buffer[j + 1]
                                              ELSE 0]
                  used == {j \in 1..8 : sequence[j] # 0}
                  fewest == IF used = {} THEN 1
                            ELSE CHOOSE j \in used : \A k \in used : k <= j
                  packet == sess'[i].sysOut
              IN  /\ sess'[i].nSysOut = sess[i].nSysOut + 1
                  /\ packet[1] \div 64 = SYS_OPCODE_PONG
                  /\ (packet[1] \div 8) % 8 = fewest - 1
                  /\ packet = <<packet[1]>> \o SubSeq(sequence, 1, fewest)
                  /\ rtt'.mean = rtt.mean
                  /\ rtt'.variance = rtt.variance
                  /\ rtt'.sample = rtt.sample
                  /\ rtt'.entries = rtt.entries
                  /\ rtt'.entrySequence = rtt.entrySequence
                  /\ clock' = clock]_vars

\* C32: a PONG delivered on the system channel adds one RTT sample and
\* makes one clock.sync call if it is whole and its sequence is that of a
\* ping the session sent, that no PONG has answered and whose slot no later
\* ping has taken; any other PONG (cut short, for a sequence never sent, for
\* one already answered, for one whose slot was reused) leaves the RTT
\* mean, variance, samples and entries and the clock as they were.  The
\* samples and the sync calls are as many as the pings answered, so no ping
\* counts twice.
C32_OneSamplePerPing ==
    [][\A i \in DOMAIN sess :
          (/\ i \in DOMAIN sess'
           /\ sess'[i].nSysIn = sess[i].nSysIn + 1
           /\ Len(sess'[i].sysIn) >= 1
           /\ sess'[i].sysIn[1] \div 64 = SYS_OPCODE_PONG) =>
              LET buffer == sess'[i].sysIn
                  w == ((buffer[1] \div 8) % 8) + 1
                  tw == (buffer[1] % 8) + 1
                  whole == Len(buffer) >= 1 + w + tw
                  sequence == [j \in 1..8 |-> IF j <= w THEN buffer[j + 1]
                                              ELSE 0]
                  held == {k \in DOMAIN rtt.pings :
                             /\ whole
                             /\ Small64(sequence)
                             /\ rtt.pings[k] = FromU64(sequence)
                             /\ k \notin rtt.answered
                             /\ \A l \in DOMAIN rtt.pings :
                                   l > k =>
                                     rtt.pings[l] % POMELO_RTT_ENTRY_BUFFER_SIZE
                                       # rtt.pings[k]
                                           % POMELO_RTT_ENTRY_BUFFER_SIZE}
              IN  /\ held # {} =>
                        /\ Len(rtt'.sample.submitted)
                             = Len(rtt.sample.submitted) + 1
                        /\ clock'.syncs = clock.syncs + 1
                        /\ rtt'.answered = rtt.answered \cup held
                        /\ Cardinality(held) = 1
                  /\ held = {} =>
                        /\ rtt'.mean = rtt.mean
                        /\ rtt'.variance = rtt.variance
                        /\ rtt'.sample = rtt.sample
                        /\ rtt'.entries = rtt.entries
                        /\ rtt'.answered = rtt.answered
                        /\ clock' = clock
                  /\ clock'.syncs = Cardinality(rtt'.answered)
                  /\ Len(rtt'.sample.submitted) = Cardinality(rtt'.answered)
                  /\ Cardinality(rtt'.answered) <= Len(rtt'.pings)]_vars

\* the ping with sequence 0 was answered by a PONG, which gave one sample
\* and one sync call, and a second PONG for it was dropped
C32_Witness ==
    \E i \in Sessions :
        /\ sess[i].nSysIn = 2
        /\ sess[i].sysIn = PeerPong(ToU64(0), 1, ToU64(Ms), 1)
        /\ rtt.answered = {1}
        /\ rtt.last.op = "pong"
        /\ ~rtt.last.found
        /\ clock.syncs = 1
        /\ Len(rtt.sample.submitted) = 1

\* C35: no session has, after it closed, written a signaling frame (AUTH,
\* DESC, CAND or READY) to its signaling socket or called send on its
\* system channel with a PING or a PONG; a handler of a remote description
\* that was suspended when the session closed ends without a frame.
C35_ClosedSessionSendsNothing ==
    \A i \in Sessions :
        /\ ~sess[i].lateSend
        /\ ~sess[i].lateSys
        /\ ~sess[i].active =>
              /\ ~sess[i].pingInterval
              /\ sess[i].ws # "open"
              /\ sess[i].sysDc # "open"

\* a session that had sent READY and a PING closed while the handler of
\* DESC|offer|sdp was suspended in setLocalDescription; the handler has
\* ended since, and the DESC frame was never sent
C35_Witness ==
    \E i \in Sessions :
        /\ ~sess[i].active
        /\ sess[i].remoteSet
        /\ sess[i].descAwait1 = 0
        /\ sess[i].descAwait2 = 0
        /\ sess[i].sent[OPCODE_DESCRIPTION] = 0
        /\ sess[i].sent[OPCODE_READY] = 1
        /\ sess[i].nSysOut > 0
====
